---- MODULE Spec2Model ----
(***************************************************************************)
(* The parts of earthly, each with its own specification.                  *)
(*                                                                         *)
(* Spec: the target reference algebra (domain/target.go): ParseTarget, the *)
(* renderers String / StringCanonical / ProjectCanonical, the git-origin   *)
(* matcher parseGitURLandPath and JoinTargets, driven by a resolution      *)
(* session: the CLI parses the root target, every reference met while      *)
(* building is parsed, rendered and joined onto the calling target, and    *)
(* the build descends into the joined target.                              *)
(*                                                                         *)
(* SpecLexer: the indentation lexer (earthfile2llb/lexer.go) over the      *)
(* generated EarthLexer, called by the parser until EOF.                   *)
(*                                                                         *)
(* SpecBuild: the build command (earthlyApp.actionBuild) and the builder   *)
(* that runs the commands of the target.                                   *)
(*                                                                         *)
(* SpecOrg: the commands org invite and org revoke.                        *)
(*                                                                         *)
(* SpecGit: updateGitLookupConfig, which registers the git matchers of the *)
(* configuration.                                                          *)
(*                                                                         *)
(* SpecSignal, SpecSignalFair: main with its signal goroutine and the      *)
(* timer it starts.                                                        *)
(*                                                                         *)
(* SpecLower: the search for the dependencies of a target when it is       *)
(* lowered to a build graph.                                               *)
(*                                                                         *)
(* Go strings are TLA+ strings; a byte of a string is a string of length   *)
(* one.  Go indexes from 0, the operators below index from 1.              *)
(***************************************************************************)
EXTENDS Integers, Sequences, FiniteSets, TLC

\* The resolution session.
VARIABLES pc, fullTargetName, parsed, rendered, reparsed, target1, target2,
          joined, depth
\* The lexer of a recipe: its input, the lexer, the tokens the generated
\* lexer has produced, the tokens NextToken has returned and whether the
\* lexer runs, is done or has panicked.
VARIABLES input, l, produced, tokens, lexStatus
\* The build command: the flags and arguments of the command line, the
\* application after actionBuild, the options given to the builder, the
\* recipe of the target, its commands left to do and those executed, and
\* how far the command is.
VARIABLES flags, args, app, buildOpts, recipe, todo, executed, buildStatus

targetVars == <<pc, fullTargetName, parsed, rendered, reparsed, target1, target2,
                joined, depth>>
lexerVars == <<input, l, produced, tokens, lexStatus>>
buildVars == <<flags, args, app, buildOpts, recipe, todo, executed, buildStatus>>

\* The org commands: the command and its arguments, the --write flag, the
\* calls made to the secrets client and how far the command is.
VARIABLES orgCommand, orgArgs, writePermission, secretsCalls, orgStatus
\* The git configuration: the ssh socket of the environment and the agent
\* behind it, the git section of the configuration, the lookup being
\* configured, the entries still to register and how far the call is.
VARIABLES sshAuthSock, sshAgent, cfgGit, gitLookup, gitTodo, gitStatus
\* The process: where main is, the code app.run has returned (-1 before),
\* whether the root context is cancelled, the signal channel, the flag of the
\* signal goroutine, the seconds the timer has slept (-1 when there is
\* none), the signals sent to the process and its exit code (-1 while it
\* runs).
VARIABLES mainPc, runExit, ctxCancelled, sigChan, receivedSignal, timerElapsed,
          sent, exitCode
\* The lowering: the dependencies found in the recipes, the target asked
\* for, the marks of the search, its path, the nodes emitted, how far the
\* lowering is and the cycle it reports.
VARIABLES recipeDeps, lowRoot, color, dfsStack, nodes, lowerStatus, cyclePath

orgVars == <<orgCommand, orgArgs, writePermission, secretsCalls, orgStatus>>
gitVars == <<sshAuthSock, sshAgent, cfgGit, gitLookup, gitTodo, gitStatus>>
signalVars == <<mainPc, runExit, ctxCancelled, sigChan, receivedSignal,
                timerElapsed, sent, exitCode>>
lowerVars == <<recipeDeps, lowRoot, color, dfsStack, nodes, lowerStatus, cyclePath>>

vars == <<targetVars, lexerVars, buildVars, orgVars, gitVars, signalVars, lowerVars>>

\* The parts that take no step in a specification of another part.
OrgIdle ==
    /\ orgCommand = ""
    /\ orgArgs = <<>>
    /\ writePermission = FALSE
    /\ secretsCalls = <<>>
    /\ orgStatus = "idle"

GitIdle ==
    /\ sshAuthSock = ""
    /\ sshAgent = [dial |-> FALSE, list |-> FALSE, keys |-> 0]
    /\ cfgGit = {}
    /\ gitLookup = [disableSSH |-> FALSE, matchers |-> <<>>]
    /\ gitTodo = {}
    /\ gitStatus = "idle"

SignalIdle ==
    /\ mainPc = "idle"
    /\ runExit = -1
    /\ ctxCancelled = FALSE
    /\ sigChan = <<>>
    /\ receivedSignal = FALSE
    /\ timerElapsed = -1
    /\ sent = 0
    /\ exitCode = -1

LowerIdle ==
    /\ recipeDeps = <<>>
    /\ lowRoot = ""
    /\ color = <<>>
    /\ dfsStack = <<>>
    /\ nodes = <<>>
    /\ lowerStatus = "idle"
    /\ cyclePath = <<>>

(***************************************************************************)
(* Bounds of the model.                                                    *)
(***************************************************************************)
\* Largest number of "/"-separated segments of a generated path prefix.
MaxSegs == 2
\* Largest number of times the build descends into a joined target.
MaxDepth == 1

(***************************************************************************)
(* Go library functions used by domain/target.go, by what they compute.    *)
(***************************************************************************)
\* s[i-1] of Go; "" when the index is outside the string.
Char(s, i) == IF i >= 1 /\ i <= Len(s) THEN SubSeq(s, i, i) ELSE ""

\* s[i-1:] of Go.
From(s, i) == SubSeq(s, i, Len(s))

\* strings.HasPrefix
HasPrefix(s, prefix) ==
    Len(s) >= Len(prefix) /\ SubSeq(s, 1, Len(prefix)) = prefix

\* Position of the first byte c of s at or after position i, 0 when there is none.
RECURSIVE IndexFrom(_, _, _)
IndexFrom(s, c, i) ==
    IF i > Len(s) THEN 0
    ELSE IF Char(s, i) = c THEN i
    ELSE IndexFrom(s, c, i + 1)

\* Position of the last byte c of s, 0 when there is none.
RECURSIVE LastIndexUpTo(_, _, _)
LastIndexUpTo(s, c, i) ==
    IF i < 1 THEN 0
    ELSE IF Char(s, i) = c THEN i
    ELSE LastIndexUpTo(s, c, i - 1)

\* A split at the last separator instead of the first.
SplitAtLast(s, sep) ==
    LET i == LastIndexUpTo(s, sep, Len(s))
    IN  IF i = 0 THEN <<s>> ELSE <<SubSeq(s, 1, i - 1), From(s, i + 1)>>

\* strings.SplitN(s, sep, 2) for a one-byte separator: s cut at its first sep.
SplitN2(s, sep) ==
    LET i == IndexFrom(s, sep, 1)
    IN  IF i = 0 THEN <<s>> ELSE <<SubSeq(s, 1, i - 1), From(s, i + 1)>>

\* path.IsAbs
IsAbs(p) == Char(p, 1) = "/"

\* path.Clean, inner loop of the dot-dot case: drop the last element of out.
RECURSIVE Backtrack(_, _, _)
Backtrack(out, w, dotdot) ==
    IF w > dotdot /\ Char(out, w + 1) # "/"
    THEN Backtrack(out, w - 1, dotdot)
    ELSE SubSeq(out, 1, w)

\* path.Clean, main loop: r is the read position in p, out the output buffer,
\* dotdot the length of out where a ".." must stop backtracking.
RECURSIVE CleanLoop(_, _, _, _)
CleanLoop(p, r, out, dotdot) ==
    LET n == Len(p)
        rooted == Char(p, 1) = "/"
    IN  IF r > n THEN out
        ELSE IF Char(p, r) = "/" THEN CleanLoop(p, r + 1, out, dotdot)
        ELSE IF Char(p, r) = "." /\ (r = n \/ Char(p, r + 1) = "/")
             THEN CleanLoop(p, r + 1, out, dotdot)
        ELSE IF /\ Char(p, r) = "."
                /\ Char(p, r + 1) = "."
                /\ (r + 1 = n \/ Char(p, r + 2) = "/")
             THEN IF Len(out) > dotdot
                  THEN CleanLoop(p, r + 2, Backtrack(out, Len(out) - 1, dotdot), dotdot)
                  ELSE IF ~rooted
                  THEN LET o2 == (IF Len(out) > 0 THEN out \o "/" ELSE out) \o ".."
                       IN  CleanLoop(p, r + 2, o2, Len(o2))
                  ELSE CleanLoop(p, r + 2, out, dotdot)
        ELSE LET o2 == IF (rooted /\ Len(out) # 1) \/ (~rooted /\ Len(out) # 0)
                       THEN out \o "/" ELSE out
                 s == IndexFrom(p, "/", r)
                 e == IF s = 0 THEN n + 1 ELSE s
             IN  CleanLoop(p, e, o2 \o SubSeq(p, r, e - 1), dotdot)

\* path.Clean
Clean(p) ==
    IF p = "" THEN "."
    ELSE LET rooted == Char(p, 1) = "/"
             out == IF rooted
                    THEN CleanLoop(p, 2, "/", 1)
                    ELSE CleanLoop(p, 1, "", 0)
         IN  IF out = "" THEN "." ELSE out

\* path.Join(a, b)
PathJoin(a, b) ==
    IF a # "" THEN Clean(a \o "/" \o b)
    ELSE IF b # "" THEN Clean(b)
    ELSE ""

(***************************************************************************)
(* regexp: the part of the syntax the git matchers use.  A pattern is a    *)
(* string of literal bytes, "." (any byte) and "[^/]+" (one or more bytes  *)
(* other than "/", greedy).  MatchHere gives the position after the match  *)
(* of the pattern from its position k against s from position i, 0 when    *)
(* there is no match.                                                      *)
(***************************************************************************)
\* Number of bytes other than "/" of s from position i on.
RECURSIVE RunNotSlash(_, _)
RunNotSlash(s, i) ==
    IF i > Len(s) \/ Char(s, i) = "/" THEN 0 ELSE 1 + RunNotSlash(s, i + 1)

RECURSIVE MatchHere(_, _, _, _)
RECURSIVE MatchPlus(_, _, _, _, _)
MatchPlus(pat, k, s, i, n) ==
    IF n < 1 THEN 0
    ELSE LET e == MatchHere(pat, k, s, i + n)
         IN  IF e # 0 THEN e ELSE MatchPlus(pat, k, s, i, n - 1)

MatchHere(pat, k, s, i) ==
    IF k > Len(pat) THEN i
    ELSE IF HasPrefix(From(pat, k), "[^/]+")
         THEN MatchPlus(pat, k + 5, s, i, RunNotSlash(s, i))
    ELSE IF i > Len(s) THEN 0
    ELSE IF Char(pat, k) = "." \/ Char(pat, k) = Char(s, i)
         THEN MatchHere(pat, k + 1, s, i + 1)
    ELSE 0

RECURSIVE FindFrom(_, _, _)
FindFrom(pat, s, i) ==
    IF i > Len(s) + 1 THEN ""
    ELSE LET e == MatchHere(pat, 1, s, i)
         IN  IF e # 0 THEN SubSeq(s, i, e - 1) ELSE FindFrom(pat, s, i + 1)

\* regexp.FindString: the text of the leftmost match, "" when there is none.
FindString(pat, s) == FindFrom(pat, s, 1)

(***************************************************************************)
(* domain/target.go                                                        *)
(***************************************************************************)
\* The zero value Target{}.
ZeroTarget ==
    [GitURL |-> "", GitPath |-> "", Tag |-> "", LocalPath |-> "", Target |-> ""]

IsLocalInternal(et) == et.LocalPath = "."

IsLocalExternal(et) == et.LocalPath # "." /\ et.LocalPath # ""

IsRemote(et) == ~IsLocalExternal(et) /\ ~IsLocalInternal(et)

IsExternal(et) == IsRemote(et) \/ IsLocalExternal(et)

\* fmt.Sprintf("%s/%s%s+%s", et.GitURL, et.GitPath, tag, et.Target)
RemoteForm(et) ==
    LET tag == IF et.Tag = "" THEN "" ELSE ":" \o et.Tag
    IN  et.GitURL \o "/" \o et.GitPath \o tag \o "+" \o et.Target

String(et) ==
    IF IsLocalExternal(et) THEN et.LocalPath \o "+" \o et.Target
    ELSE IF IsRemote(et) THEN RemoteForm(et)
    ELSE "+" \o et.Target

StringCanonical(et) ==
    IF et.GitURL # "" THEN RemoteForm(et) ELSE String(et)

\* path.Base: the last element of p, trailing slashes removed first; "." for
\* the empty path and "/" for a path of slashes only.
RECURSIVE StripTrailingSlashes(_)
StripTrailingSlashes(p) ==
    IF Len(p) > 0 /\ Char(p, Len(p)) = "/"
    THEN StripTrailingSlashes(SubSeq(p, 1, Len(p) - 1))
    ELSE p

Base(p) ==
    IF p = "" THEN "."
    ELSE LET q == StripTrailingSlashes(p)
             i == LastIndexUpTo(q, "/", Len(q))
             r == IF i >= 1 THEN From(q, i + 1) ELSE q
         IN  IF r = "" THEN "/" ELSE r

\* Target.ProjectCanonical
ProjectCanonical(et) ==
    IF et.GitURL # ""
    THEN LET tag == IF et.Tag # "" THEN ":" \o et.Tag ELSE ""
         IN  et.GitURL \o "/" \o et.GitPath \o tag
    ELSE IF et.LocalPath = "."
    THEN ""
    ELSE Base(et.LocalPath)

matchers ==
    << [pattern |-> "github.com/[^/]+/[^/]+", user |-> "git", suffix |-> ".git"],
       [pattern |-> "gitlab.com/[^/]+/[^/]+", user |-> "git", suffix |-> ".git"],
       [pattern |-> "bitbucket.com/[^/]+/[^/]+", user |-> "git", suffix |-> ".git"],
       [pattern |-> "192.168.0.116/my/test/path/[^/]+", user |-> "alex", suffix |-> ".git"] >>

\* The loop over the matchers from the m-th on.
RECURSIVE MatchFrom(_, _)
MatchFrom(path, m) ==
    IF m > Len(matchers) THEN [gitURL |-> "", gitPath |-> "", err |-> FALSE]
    ELSE LET match == FindString(matchers[m].pattern, path)
         IN  IF match # ""
             THEN [gitURL |-> match, gitPath |-> From(path, Len(match) + 1), err |-> FALSE]
             ELSE MatchFrom(path, m + 1)

parseGitURLandPath(path) == MatchFrom(path, 1)

\* ParseTarget: the Target and whether an error is returned.
ParseTarget(name) ==
    LET partsPlus == SplitN2(name, "+")
    IN  IF Len(partsPlus) # 2 THEN [target |-> ZeroTarget, err |-> TRUE]
        ELSE IF partsPlus[1] = ""
        THEN [target |-> [ZeroTarget EXCEPT !.LocalPath = ".", !.Target = partsPlus[2]],
              err |-> FALSE]
        ELSE IF HasPrefix(partsPlus[1], ".") \/ HasPrefix(partsPlus[1], "/")
        THEN LET cleaned == Clean(partsPlus[1])
                 localPath == IF IsAbs(partsPlus[1]) THEN cleaned
                              ELSE IF ~HasPrefix(cleaned, ".") THEN "./" \o cleaned
                              ELSE cleaned
             IN  [target |-> [ZeroTarget EXCEPT !.LocalPath = localPath,
                                                !.Target = partsPlus[2]],
                  err |-> FALSE]
        ELSE LET partsColon == SplitN2(partsPlus[1], ":")
                 tag == IF Len(partsColon) = 2 THEN partsColon[2] ELSE ""
                 git == parseGitURLandPath(partsColon[1])
             IN  IF git.err THEN [target |-> ZeroTarget, err |-> TRUE]
                 ELSE [target |-> [ZeroTarget EXCEPT !.GitURL = git.gitURL,
                                                     !.GitPath = git.gitPath,
                                                     !.Tag = tag,
                                                     !.Target = partsPlus[2]],
                       err |-> FALSE]

\* The remote branch overwriting the tag of every reference.
JoinRemoteCallerRetag(caller, ret) ==
    IF ~IsRemote(ret)
    THEN [outcome |-> "panic", target |-> ZeroTarget]
    ELSE [outcome |-> "ok", target |-> [ret EXCEPT !.Tag = caller.Tag]]

\* JoinTargets, target1 remote (ret is target2): a reference that is not
\* remote hits panic("TODO") before any field is set; a remote reference is
\* returned as it is.
JoinRemoteCaller(caller, ret) ==
    IF ~IsRemote(ret)
    THEN [outcome |-> "panic", target |-> ZeroTarget]
    ELSE [outcome |-> "ok", target |-> ret]

\* JoinTargets, target1 local, ret local external.
JoinLocalExternal(caller, ret) ==
    IF IsAbs(ret.LocalPath)
    THEN [ret EXCEPT !.LocalPath = Clean(ret.LocalPath)]
    ELSE LET j == PathJoin(caller.LocalPath, ret.LocalPath)
         IN  [ret EXCEPT !.LocalPath = IF ~HasPrefix(j, ".") THEN "./" \o j ELSE j]

\* The local branch without the inheritance of the caller's path.
JoinLocalCallerNoInherit(caller, ret) ==
    IF IsLocalExternal(ret)
    THEN [outcome |-> "ok", target |-> JoinLocalExternal(caller, ret)]
    ELSE [outcome |-> "ok", target |-> ret]

\* JoinTargets, target1 local (ret is target2).
JoinLocalCaller(caller, ret) ==
    IF IsLocalExternal(ret)
    THEN [outcome |-> "ok", target |-> JoinLocalExternal(caller, ret)]
    ELSE IF IsLocalInternal(ret)
    THEN [outcome |-> "ok", target |-> [ret EXCEPT !.LocalPath = caller.LocalPath]]
    ELSE [outcome |-> "ok", target |-> ret]

\* JoinTargets: outcome "ok" (a Target and a nil error) or "panic"; the
\* return of an error value stands after the panic and is never executed.
JoinTargets(caller, ref) ==
    IF IsRemote(caller)
    THEN JoinRemoteCaller(caller, ref)
    ELSE JoinLocalCaller(caller, ref)

(***************************************************************************)
(* The generated lexer parser.EarthLexer that earthfile2llb/lexer.go wraps, *)
(* after the lexer contract: newlines are NL tokens, a run of blanks is one *)
(* WS token, a backslash-newline and the blanks that lead the next line are *)
(* absorbed, anything else is an atom.  The token that heads a line is a    *)
(* target header (it ends with ":") and opens the RECIPE mode, or a command *)
(* word and opens the COMMAND mode, which the end of the line closes.       *)
(***************************************************************************)
IsBlank(c) == c \in {" ", "\t"}

\* The first position at or after i that holds no blank.
RECURSIVE SkipBlanks(_, _)
SkipBlanks(data, i) ==
    IF IsBlank(Char(data, i)) THEN SkipBlanks(data, i + 1) ELSE i

\* A line continuation, taken with the leading blanks of the next line.
IsLC(data, i) == Char(data, i) = "\\" /\ Char(data, i + 1) = "\n"

\* A line continuation that leaves the leading blanks of the next line in place.
LCEndKeepBlanks(data, i) == i + 2

\* The position after the line continuation at i.
LCEnd(data, i) == SkipBlanks(data, i + 2)

\* The first position at or after i that is not in a line continuation.
RECURSIVE SkipLC(_, _)
SkipLC(data, i) ==
    IF IsLC(data, i) THEN SkipLC(data, LCEnd(data, i)) ELSE i

\* The atom that starts at i: its text, without the line continuations in
\* it, and the position after it.
RECURSIVE ScanAtom(_, _, _)
ScanAtom(data, i, text) ==
    IF i > Len(data) \/ IsBlank(Char(data, i)) \/ Char(data, i) = "\n"
    THEN [text |-> text, stop |-> i]
    ELSE IF IsLC(data, i)
    THEN ScanAtom(data, LCEnd(data, i), text)
    ELSE ScanAtom(data, i + 1, text \o Char(data, i))

\* BaseLexer.PushMode
PushMode(b, m) ==
    [b EXCEPT !.modeStack = Append(@, b.mode), !.mode = m]

\* parser.EarthLexer.NextToken: the token at the index of the input stream,
\* and the lexer b (the wrapper embeds it) after the token: its index and its
\* modes.  start is the position of the first byte of the token, from 1.
EarthLexerNextToken(data, b) ==
    LET i == SkipLC(data, b.index)
        c == Char(data, i)
    IN  IF i > Len(data)
        THEN [tok |-> [type |-> "EOF", text |-> "", start |-> i],
              b |-> [b EXCEPT !.index = i]]
        ELSE IF c = "\n"
        THEN [tok |-> [type |-> "NL", text |-> c, start |-> i],
              b |-> IF b.mode = "COMMAND"
                    THEN [b EXCEPT !.index = i + 1,
                                   !.mode = b.modeStack[Len(b.modeStack)],
                                   !.modeStack = SubSeq(@, 1, Len(@) - 1)]
                    ELSE [b EXCEPT !.index = i + 1]]
        ELSE IF IsBlank(c)
        THEN [tok |-> [type |-> "WS",
                       text |-> SubSeq(data, i, SkipBlanks(data, i) - 1),
                       start |-> i],
              b |-> [b EXCEPT !.index = SkipBlanks(data, i)]]
        ELSE LET a == ScanAtom(data, i, "")
                 at == [b EXCEPT !.index = a.stop]
             IN  IF b.mode = "COMMAND"
                 THEN [tok |-> [type |-> "Atom", text |-> a.text, start |-> i],
                       b |-> at]
                 ELSE IF Char(a.text, Len(a.text)) = ":"
                 THEN [tok |-> [type |-> "Target", text |-> a.text, start |-> i],
                       b |-> PushMode(at, "RECIPE")]
                 ELSE [tok |-> [type |-> "Command", text |-> a.text, start |-> i],
                       b |-> PushMode(at, "COMMAND")]

(***************************************************************************)
(* earthfile2llb/lexer.go.  The fields ws* of the lexer only place the      *)
(* synthetic tokens in the source and are left out.                         *)
(***************************************************************************)
\* The window of the here-document search.
HereDocWindow == 19

\* newLexer: a lexer at the start of its input, in the default mode.
newLexer ==
    [index |-> 1, mode |-> "DEFAULT", modeStack |-> <<>>,
     prevIndentLevel |-> 0, indentLevel |-> 0, afterNewLine |-> FALSE,
     tokenQueue |-> <<>>]

\* BaseLexer.PopMode: panics on an empty mode stack.
PopMode(lx) ==
    IF lx.modeStack = <<>>
    THEN [outcome |-> "panic", l |-> lx]
    ELSE [outcome |-> "ok",
          l |-> [lx EXCEPT !.mode = lx.modeStack[Len(lx.modeStack)],
                           !.modeStack = SubSeq(@, 1, Len(@) - 1)]]

\* strings.Index: the position from 1 of the first sub in s, 0 when there is none.
RECURSIVE StringsIndexFrom(_, _, _)
StringsIndexFrom(s, sub, i) ==
    IF i + Len(sub) - 1 > Len(s) THEN 0
    ELSE IF SubSeq(s, i, i + Len(sub) - 1) = sub THEN i
    ELSE StringsIndexFrom(s, sub, i + 1)

StringsIndex(s, sub) == StringsIndexFrom(s, sub, 1)

\* InputStream.GetText(start, stop), positions counted from 1, stop inclusive.
GetText(data, start, stop) ==
    IF start > Len(data) THEN ""
    ELSE SubSeq(data, start, IF stop > Len(data) THEN Len(data) ELSE stop)

\* NextToken, the case of an atom that starts with "<<": the text up to the
\* first "EOF" of the window replaces the text of the atom, the input is
\* moved past that "EOF", the mode is popped and the atom is returned at
\* once; a window without "EOF" panics.
HereDocToken(data, lx, peek) ==
    LET heredoc == "EOF"
        start == peek.start + Len("<<" \o heredoc \o "\n")
        end == start + (HereDocWindow - 1)
        s == GetText(data, start, end)
        n == StringsIndex(s, "EOF")
        popped == PopMode([lx EXCEPT !.index = start + (n - 1) + Len("EOF")])
    IN  IF n = 0
        THEN [outcome |-> "panic", l |-> lx, ret |-> peek]
        ELSE [outcome |-> popped.outcome, l |-> popped.l,
              ret |-> [peek EXCEPT !.text = SubSeq(s, 1, n - 1)]]

\* An INDENT or DEDENT token.
Synthetic(type) == [type |-> type, text |-> "", start |-> 0]

\* A test of the levels that also fires on equal levels.
IndentIfNotLess(prev, level) == prev <= level

\* The test that queues an INDENT.
IndentIf(prev, level) == prev < level

\* NextToken, the default case of any other token: after a newline an INDENT
\* or a DEDENT is queued when the level differs from the previous one, and a
\* DEDENT pops the mode; the level is recorded.
IndentStep(lx) ==
    LET queued ==
            IF lx.afterNewLine /\ IndentIf(lx.prevIndentLevel, lx.indentLevel)
            THEN [outcome |-> "ok",
                  l |-> [lx EXCEPT !.tokenQueue = Append(@, Synthetic("INDENT"))]]
            ELSE IF lx.afterNewLine /\ lx.prevIndentLevel > lx.indentLevel
            THEN PopMode([lx EXCEPT !.tokenQueue = Append(@, Synthetic("DEDENT"))])
            ELSE [outcome |-> "ok", l |-> lx]
    IN  IF queued.outcome = "panic"
        THEN queued
        ELSE [outcome |-> "ok",
              l |-> [queued.l EXCEPT !.prevIndentLevel = lx.indentLevel,
                                     !.afterNewLine = FALSE]]

\* NextToken, its end: with tokens in the queue, peek goes to the back of the
\* queue and the token at its front is returned.
Dequeue(lx, peek) ==
    IF Len(lx.tokenQueue) > 0
    THEN [l |-> [lx EXCEPT !.tokenQueue = Tail(Append(@, peek))],
          ret |-> Head(lx.tokenQueue)]
    ELSE [l |-> lx, ret |-> peek]

\* lexer.NextToken: the lexer after the call, the token returned, and the
\* outcome "ok" or "panic".
LexerNextToken(data, lx) ==
    LET under == EarthLexerNextToken(data, lx)
        peek == under.tok
        l0 == under.b
    IN  IF peek.type = "WS"
        THEN LET d == Dequeue([l0 EXCEPT !.indentLevel =
                                  IF l0.afterNewLine THEN @ + 1 ELSE @], peek)
             IN  [outcome |-> "ok", l |-> d.l, ret |-> d.ret]
        ELSE IF peek.type = "NL"
        THEN LET d == Dequeue([l0 EXCEPT !.indentLevel = 0,
                                         !.afterNewLine = TRUE], peek)
             IN  [outcome |-> "ok", l |-> d.l, ret |-> d.ret]
        ELSE IF peek.type = "HereDoc"
        THEN [outcome |-> "panic", l |-> l0, ret |-> peek]
        ELSE IF peek.type = "Atom" /\ HasPrefix(peek.text, "<<")
        THEN HereDocToken(data, l0, peek)
        ELSE LET st == IndentStep(l0)
                 d == Dequeue(st.l, peek)
             IN  IF st.outcome = "panic"
                 THEN [outcome |-> "panic", l |-> st.l, ret |-> peek]
                 ELSE [outcome |-> "ok", l |-> d.l, ret |-> d.ret]

(***************************************************************************)
(* earthlyApp.actionBuild (the build command of the CLI).                  *)
(***************************************************************************)
\* The earthlyApp of a command line without flags.
NoFlags ==
    [ci |-> FALSE, push |-> FALSE, remoteCache |-> "", imageMode |-> FALSE,
     artifactMode |-> FALSE, noOutput |-> FALSE, useInlineCache |-> FALSE,
     saveInlineCache |-> FALSE]

NoBuildOpt == [Push |-> FALSE, NoOutput |-> FALSE, OnlyFinalTargetImages |-> FALSE]

\* actionBuild, its start: --ci sets useInlineCache and noOutput, and
\* saveInlineCache when the build pushes and no remote cache is given.
CiFlags(a) ==
    IF a.ci
    THEN [a EXCEPT !.useInlineCache = TRUE,
                   !.noOutput = TRUE,
                   !.saveInlineCache = IF a.remoteCache = "" /\ a.push THEN TRUE ELSE @]
    ELSE a

\* actionBuild, the check of the modes: image and artifact mode exclude each
\* other; with either, noOutput is an error, or is cleared under --ci.
ModeFlags(a) ==
    IF a.imageMode /\ a.artifactMode
    THEN [err |-> TRUE, app |-> a]
    ELSE IF (a.imageMode /\ a.noOutput) \/ (a.artifactMode /\ a.noOutput)
    THEN IF a.ci
         THEN [err |-> FALSE, app |-> [a EXCEPT !.noOutput = FALSE]]
         ELSE [err |-> TRUE, app |-> a]
    ELSE [err |-> FALSE, app |-> a]

\* domain.ParseArtifact, its target: the reference before the "/" that
\* follows the name.
ArtifactTarget(artifactName) ==
    LET plus == IndexFrom(artifactName, "+", 1)
        slash == IndexFrom(artifactName, "/", plus + 1)
    IN  IF plus = 0 \/ slash = 0
        THEN [target |-> ZeroTarget, err |-> TRUE]
        ELSE ParseTarget(SubSeq(artifactName, 1, slash - 1))

\* actionBuild, the target of the build, from the arguments: one argument (or
\* two in artifact mode), which must parse.
TargetOfArgs(a, arguments) ==
    IF a.imageMode
    THEN IF Len(arguments) # 1
         THEN [target |-> ZeroTarget, err |-> TRUE]
         ELSE ParseTarget(arguments[1])
    ELSE IF a.artifactMode
    THEN IF Len(arguments) # 1 /\ Len(arguments) # 2
         THEN [target |-> ZeroTarget, err |-> TRUE]
         ELSE ArtifactTarget(arguments[1])
    ELSE IF Len(arguments) # 1
    THEN [target |-> ZeroTarget, err |-> TRUE]
    ELSE ParseTarget(arguments[1])

\* A BuildOpt whose Push is the ci flag.
BuildOptPushFromCi(a) ==
    [Push |-> a.ci, NoOutput |-> a.noOutput, OnlyFinalTargetImages |-> a.imageMode]

\* actionBuild, the options of the build.
BuildOptOf(a) ==
    [Push |-> a.push, NoOutput |-> a.noOutput, OnlyFinalTargetImages |-> a.imageMode]

\* actionBuild up to the call of BuildTarget: the application after the
\* flags, the target, the options, and whether the command has returned an
\* error.  envOk: the services the command sets up (buildkitd client, secrets
\* client, temporary directory, git lookup) are there.
actionBuild(a, arguments, envOk) ==
    LET modes == ModeFlags(CiFlags(a))
        t == TargetOfArgs(modes.app, arguments)
    IN  IF modes.err
        THEN [err |-> TRUE, app |-> modes.app, target |-> ZeroTarget,
              buildOpts |-> NoBuildOpt]
        ELSE IF t.err \/ ~envOk
        THEN [err |-> TRUE, app |-> modes.app, target |-> t.target,
              buildOpts |-> NoBuildOpt]
        ELSE [err |-> FALSE, app |-> modes.app, target |-> t.target,
              buildOpts |-> BuildOptOf(modes.app)]

\* The builder: a command flagged --push is executed in push mode only.
Executes(command, opt) == ~command.push \/ opt.Push

(***************************************************************************)
(* The references the session is run on.                                   *)
(***************************************************************************)
\* Path segments: empty (a doubled or trailing slash), the dot names, a plain
\* name and a name that starts with a dot.
Segs == {"", ".", "..", "a", ".b"}

\* The strings of exactly n segments joined by "/".
RECURSIVE Paths(_)
Paths(n) ==
    IF n = 1 THEN Segs
    ELSE {p \o "/" \o sg : p \in Paths(n - 1), sg \in Segs}

PathsUpTo(n) == UNION {Paths(k) : k \in 1..n}

\* References with a remote-looking prefix, and malformed ones.
FixedRefs ==
    { "github.com/a/b+t", "github.com/a/b:v1+t", "github.com/a/b/c/d+t",
      "github.com/a/b/c:v:2+t", "gitlab.com/a/b/c:v1+t", "bitbucket.com/a/b+t",
      "192.168.0.116/my/test/path/r+t", "x/github.com/a/b+t",
      "githubXcom/a/b/c+t", "github.com/a+t", "example.org/a/b:v1+t",
      "t", "", "+", "./a+", "+t+u", "./a+t+u", "github.com/a/b:v1+t:u+w" }

\* The reference strings found in recipes.
RefInputs == {p \o "+t" : p \in PathsUpTo(MaxSegs)} \cup FixedRefs

\* The target names given on the command line.
CliInputs ==
    { "+main", "./a+main", "../a+main", "/a+main", "./.b+main", "/+main",
      "github.com/a/b+main", "github.com/a/b/c:v1+main",
      "example.org/a/b+main", "main" }

(***************************************************************************)
(* The session.                                                            *)
(***************************************************************************)
NoParse == [target |-> ZeroTarget, err |-> FALSE]
NoRender == [str |-> "", canonical |-> "", project |-> ""]
NoReparse == [err |-> FALSE, canonical |-> ""]
NoJoin == [outcome |-> "none", target |-> ZeroTarget]

TargetIdle ==
    /\ pc = "idle"
    /\ fullTargetName = ""
    /\ parsed = NoParse
    /\ rendered = NoRender
    /\ reparsed = NoReparse
    /\ target1 = ZeroTarget
    /\ target2 = ZeroTarget
    /\ joined = NoJoin
    /\ depth = 0

LexerIdle ==
    /\ input = ""
    /\ l = newLexer
    /\ produced = <<>>
    /\ tokens = <<>>
    /\ lexStatus = "idle"

BuildIdle ==
    /\ flags = NoFlags
    /\ args = <<>>
    /\ app = NoFlags
    /\ buildOpts = NoBuildOpt
    /\ recipe = <<>>
    /\ todo = <<>>
    /\ executed = <<>>
    /\ buildStatus = "idle"

Init ==
    /\ pc = "cli"
    /\ fullTargetName \in CliInputs
    /\ parsed = NoParse
    /\ rendered = NoRender
    /\ reparsed = NoReparse
    /\ target1 = ZeroTarget
    /\ target2 = ZeroTarget
    /\ joined = NoJoin
    /\ depth = 0
    /\ input = ""
    /\ l = newLexer
    /\ produced = <<>>
    /\ tokens = <<>>
    /\ lexStatus = "idle"
    /\ flags = NoFlags
    /\ args = <<>>
    /\ app = NoFlags
    /\ buildOpts = NoBuildOpt
    /\ recipe = <<>>
    /\ todo = <<>>
    /\ executed = <<>>
    /\ buildStatus = "idle"
    /\ OrgIdle /\ GitIdle /\ SignalIdle /\ LowerIdle

\* actionBuild: the target named on the command line is parsed; an error ends
\* the command, otherwise the target is the root of the build.
ParseCli ==
    /\ pc = "cli"
    /\ parsed' = ParseTarget(fullTargetName)
    /\ pc' = IF parsed'.err THEN "failed" ELSE "ready"
    /\ target1' = parsed'.target
    /\ UNCHANGED <<fullTargetName, rendered, reparsed, target2, joined, depth>>
    /\ UNCHANGED <<lexerVars, buildVars, orgVars, gitVars, signalVars, lowerVars>>

\* A reference of the recipe of target1 is parsed.
ParseRef(s) ==
    /\ pc = "ready"
    /\ fullTargetName' = s
    /\ parsed' = ParseTarget(s)
    /\ target2' = parsed'.target
    /\ pc' = "parsed"
    /\ UNCHANGED <<rendered, reparsed, target1, joined, depth>>
    /\ UNCHANGED <<lexerVars, buildVars, orgVars, gitVars, signalVars, lowerVars>>

\* The parsed reference is rendered.
Render ==
    /\ pc = "parsed"
    /\ ~parsed.err
    /\ rendered' = [str |-> String(target2),
                    canonical |-> StringCanonical(target2),
                    project |-> ProjectCanonical(target2)]
    /\ pc' = "rendered"
    /\ UNCHANGED <<fullTargetName, parsed, reparsed, target1, target2, joined, depth>>
    /\ UNCHANGED <<lexerVars, buildVars, orgVars, gitVars, signalVars, lowerVars>>

\* The canonical rendering is parsed again and rendered canonically again.
Reparse ==
    /\ pc = "rendered"
    /\ reparsed' = LET r == ParseTarget(rendered.canonical)
                   IN  [err |-> r.err,
                        canonical |-> IF r.err THEN ""
                                      ELSE StringCanonical(r.target)]
    /\ pc' = "reparsed"
    /\ UNCHANGED <<fullTargetName, parsed, rendered, target1, target2, joined, depth>>
    /\ UNCHANGED <<lexerVars, buildVars, orgVars, gitVars, signalVars, lowerVars>>

\* The parsed reference is interpreted as relative to target1.
Join ==
    /\ pc = "parsed"
    /\ ~parsed.err
    /\ joined' = JoinTargets(target1, target2)
    /\ pc' = "joined"
    /\ UNCHANGED <<fullTargetName, parsed, rendered, reparsed, target1, target2, depth>>
    /\ UNCHANGED <<lexerVars, buildVars, orgVars, gitVars, signalVars, lowerVars>>

\* The build goes on inside the joined target, which becomes the caller.
Descend ==
    /\ pc = "joined"
    /\ joined.outcome = "ok"
    /\ depth < MaxDepth
    /\ target1' = joined.target
    /\ depth' = depth + 1
    /\ pc' = "ready"
    /\ fullTargetName' = ""
    /\ parsed' = NoParse
    /\ rendered' = NoRender
    /\ reparsed' = NoReparse
    /\ target2' = ZeroTarget
    /\ joined' = NoJoin
    /\ UNCHANGED <<lexerVars, buildVars, orgVars, gitVars, signalVars, lowerVars>>

\* The reference is done with (a panic ends the process instead).
NextRef ==
    /\ pc \in {"parsed", "rendered", "reparsed", "joined"}
    /\ joined.outcome # "panic"
    /\ pc' = "ready"
    /\ fullTargetName' = ""
    /\ parsed' = NoParse
    /\ rendered' = NoRender
    /\ reparsed' = NoReparse
    /\ target2' = ZeroTarget
    /\ joined' = NoJoin
    /\ UNCHANGED <<target1, depth>>
    /\ UNCHANGED <<lexerVars, buildVars, orgVars, gitVars, signalVars, lowerVars>>

Next ==
    \/ ParseCli
    \/ \E s \in RefInputs : ParseRef(s)
    \/ Render
    \/ Reparse
    \/ Join
    \/ Descend
    \/ NextRef

Spec == Init /\ [][Next]_vars

(***************************************************************************)
(* The recipes the lexer is run on.                                        *)
(***************************************************************************)
\* Largest number of lines of a generated recipe.
MaxLines == 3

\* Lines of a recipe: a target header, commands at three depths, a blank
\* line and a line of blanks only.
Lines == {"a:", "  b x", "    d", "c", "", "  "}

\* The recipes of exactly n lines, each line but the last ended by a newline.
RECURSIVE Recipes(_)
Recipes(n) ==
    IF n = 1 THEN Lines
    ELSE {r \o "\n" \o ln : r \in Recipes(n - 1), ln \in Lines}

\* Recipes whose last line ends with a newline, and recipes whose does not.
GeneratedRecipes ==
    LET rs == UNION {Recipes(n) : n \in 1..MaxLines}
    IN  rs \cup {r \o "\n" : r \in rs}

\* A body of two levels closed at once, and the same with a header.
NestedRecipes ==
    { "a:\n  b x\n    d\nc\n", "a:\n  b x\n    d\na:\n  b x\n",
      "a:\n    d\n    d\n", "a:\n    d\n    d" }

\* Commands with a here-document: closed, with another tag, with "EOF" inside
\* a line of the body, with a long body, followed by more commands, at the
\* top level; and not closed.
HereDocRecipes ==
    { "a:\n  b <<EOF\nhi\nEOF\n",
      "a:\n  b <<END\nhi\nEND\n",
      "a:\n  b <<E\nhi\nE\n",
      "a:\n  b <<EOF\nxEOFy\nEOF\n",
      "a:\n  b <<EOF\n0123456789abcdefgh\nEOF\n",
      "a:\n  b <<EOF\nhi\nEOF\n  c\n",
      "b <<EOF\nhi\nEOF\n",
      "a:\n  b <<EOF\nhi\n",
      "a:\n  b <<EOF\nhiEOFx\n",
      "a:\n  b <<END\nhi\nEOF\n" }

\* The commands of the targets test1 .. test5 of examples/tests/lc.earth, cut
\* short after the redirection, and what each test expects echo to print.
LcTests ==
    { [recipe |-> "t:\n    RUN echo a\\\n    b > o ; \\\n    cat o\n",
       echoed |-> <<"ab">>],
      [recipe |-> "t:\n    RUN echo a\\\n    \\\n    b > o\n",
       echoed |-> <<"ab">>],
      [recipe |-> "t:\n    RUN echo a \\\n    \\\n    b > o\n",
       echoed |-> <<"a", "b">>],
      [recipe |-> "t:\n    RUN echo a\\\n        b > o ; \\\n        cat o\n",
       echoed |-> <<"ab">>],
      [recipe |-> "t:\n    RUN echo a\\\n    b > o ;\\\n    cat o\n",
       echoed |-> <<"ab">>] }

\* Further line continuations: at the head and at the end of a line, before a
\* blank line, and at the end of the recipe.
LcRecipes ==
    { "a:\n  b \\\nx\n", "a:\n  \\\n  b\n", "a:\n  b\\\n\nc\n", "a:\n  b x\\\n" }

\* Bodies indented with tabs, with spaces up to the column of a tab, and
\* with both in one line.
TabRecipes ==
    { "a:\n\tb\n        c\n", "a:\n\tb\n  c\n", "a:\n \tb\n", "a:\n  b\n\tc\n" }

LexerInputs ==
    GeneratedRecipes \cup NestedRecipes \cup HereDocRecipes
        \cup {t.recipe : t \in LcTests} \cup LcRecipes \cup TabRecipes

(***************************************************************************)
(* The lexer run: the parser calls NextToken until it is given EOF.        *)
(***************************************************************************)
InitLexer ==
    /\ input \in LexerInputs
    /\ l = newLexer
    /\ produced = <<>>
    /\ tokens = <<>>
    /\ lexStatus = "run"
    /\ pc = "idle"
    /\ fullTargetName = ""
    /\ parsed = NoParse
    /\ rendered = NoRender
    /\ reparsed = NoReparse
    /\ target1 = ZeroTarget
    /\ target2 = ZeroTarget
    /\ joined = NoJoin
    /\ depth = 0
    /\ flags = NoFlags
    /\ args = <<>>
    /\ app = NoFlags
    /\ buildOpts = NoBuildOpt
    /\ recipe = <<>>
    /\ todo = <<>>
    /\ executed = <<>>
    /\ buildStatus = "idle"
    /\ OrgIdle /\ GitIdle /\ SignalIdle /\ LowerIdle

\* One call of lexer.NextToken by the parser.
NextToken ==
    /\ lexStatus = "run"
    /\ produced' = Append(produced, EarthLexerNextToken(input, l).tok)
    /\ LET r == LexerNextToken(input, l)
       IN  /\ l' = r.l
           /\ tokens' = IF r.outcome = "ok" THEN Append(tokens, r.ret) ELSE tokens
           /\ lexStatus' = IF r.outcome = "panic" THEN "panic"
                           ELSE IF r.ret.type = "EOF" THEN "done"
                           ELSE "run"
    /\ UNCHANGED input
    /\ UNCHANGED <<targetVars, buildVars, orgVars, gitVars, signalVars, lowerVars>>

NextLexer == NextToken

SpecLexer == InitLexer /\ [][NextLexer]_vars

(***************************************************************************)
(* The build command: actionBuild, then the builder runs the commands of   *)
(* the recipe of the target.                                               *)
(***************************************************************************)
\* The command lines: every combination of the flags, with and without a
\* remote cache.
FlagInputs ==
    [ci : BOOLEAN, push : BOOLEAN, remoteCache : {"", "r"}, imageMode : BOOLEAN,
     artifactMode : BOOLEAN, noOutput : BOOLEAN, useInlineCache : BOOLEAN,
     saveInlineCache : BOOLEAN]

\* The arguments: none, a target, an artifact, an artifact and a destination,
\* a name that does not parse.
ArgInputs ==
    { <<>>, <<"./examples/tests/local+test-local">>, <<"+t/a">>,
      <<"+t/a", "d">>, <<"test-local">> }

\* The commands of test-local of examples/tests/local/Earthfile, and a
\* recipe without a --push command.
BuildRecipes ==
    { << [cmd |-> "RUN whoami", push |-> FALSE],
         [cmd |-> "RUN cat /proc/1/cgroup", push |-> FALSE],
         [cmd |-> "RUN touch /tmp/earthly-test-local", push |-> TRUE],
         [cmd |-> "BUILD +test-local-with-arg", push |-> FALSE] >>,
      << [cmd |-> "RUN whoami", push |-> FALSE] >> }

InitBuild ==
    /\ flags \in FlagInputs
    /\ args \in ArgInputs
    /\ app = flags
    /\ buildOpts = NoBuildOpt
    /\ recipe \in BuildRecipes
    /\ todo = <<>>
    /\ executed = <<>>
    /\ buildStatus = "start"
    /\ pc = "idle"
    /\ fullTargetName = ""
    /\ parsed = NoParse
    /\ rendered = NoRender
    /\ reparsed = NoReparse
    /\ target1 = ZeroTarget
    /\ target2 = ZeroTarget
    /\ joined = NoJoin
    /\ depth = 0
    /\ input = ""
    /\ l = newLexer
    /\ produced = <<>>
    /\ tokens = <<>>
    /\ lexStatus = "idle"
    /\ OrgIdle /\ GitIdle /\ SignalIdle /\ LowerIdle

\* The build command up to the call of b.BuildTarget, or to its error.
ActionBuild ==
    /\ buildStatus = "start"
    /\ \E envOk \in BOOLEAN :
           LET r == actionBuild(app, args, envOk)
           IN  /\ app' = r.app
               /\ buildOpts' = r.buildOpts
               /\ target1' = r.target
               /\ buildStatus' = IF r.err THEN "error" ELSE "building"
               /\ todo' = IF r.err THEN <<>> ELSE recipe
    /\ UNCHANGED <<flags, args, recipe, executed>>
    /\ UNCHANGED <<pc, fullTargetName, parsed, rendered, reparsed, target2,
                   joined, depth>>
    /\ UNCHANGED <<lexerVars, orgVars, gitVars, signalVars, lowerVars>>

\* b.BuildTarget: the next command of the recipe is executed, or skipped.
RunCommand ==
    /\ buildStatus = "building"
    /\ todo # <<>>
    /\ executed' = IF Executes(Head(todo), buildOpts)
                   THEN Append(executed, Head(todo).cmd)
                   ELSE executed
    /\ todo' = Tail(todo)
    /\ UNCHANGED <<flags, args, app, buildOpts, recipe, buildStatus>>
    /\ UNCHANGED <<targetVars, lexerVars, orgVars, gitVars, signalVars, lowerVars>>

\* b.BuildTarget returns.
BuildDone ==
    /\ buildStatus = "building"
    /\ todo = <<>>
    /\ buildStatus' = "built"
    /\ UNCHANGED <<flags, args, app, buildOpts, recipe, todo, executed>>
    /\ UNCHANGED <<targetVars, lexerVars, orgVars, gitVars, signalVars, lowerVars>>

NextBuild ==
    \/ ActionBuild
    \/ RunCommand
    \/ BuildDone

SpecBuild == InitBuild /\ [][NextBuild]_vars

(***************************************************************************)
(* The commands org invite and org revoke (actionOrgInvite,                *)
(* actionOrgRevoke).                                                       *)
(***************************************************************************)
\* Largest number of e-mail addresses on the command line.
MaxEmails == 3

\* strings.HasSuffix
HasSuffix(s, suffix) ==
    Len(s) >= Len(suffix) /\ SubSeq(s, Len(s) - Len(suffix) + 1, Len(s)) = suffix

\* actionOrgInvite: the error it returns and the calls it makes to the
\* secrets client; clientOk and callOk tell whether secretsclient.NewClient
\* and sc.Invite succeed.
actionOrgInvite(arguments, write, clientOk, callOk) ==
    IF Len(arguments) < 2 THEN [err |-> TRUE, calls |-> <<>>]
    ELSE IF ~HasSuffix(arguments[1], "/") THEN [err |-> TRUE, calls |-> <<>>]
    ELSE IF ~clientOk THEN [err |-> TRUE, calls |-> <<>>]
    ELSE [err |-> ~callOk,
          calls |-> <<[op |-> "Invite", path |-> arguments[1],
                       email |-> arguments[2], write |-> write]>>]

\* actionOrgRevoke, likewise, with sc.RevokePermission.
actionOrgRevoke(arguments, clientOk, callOk) ==
    IF Len(arguments) < 2 THEN [err |-> TRUE, calls |-> <<>>]
    ELSE IF ~HasSuffix(arguments[1], "/") THEN [err |-> TRUE, calls |-> <<>>]
    ELSE IF ~clientOk THEN [err |-> TRUE, calls |-> <<>>]
    ELSE [err |-> ~callOk,
          calls |-> <<[op |-> "RevokePermission", path |-> arguments[1],
                       email |-> arguments[2], write |-> FALSE]>>]

Emails == {"a@x.io", "b@x.io"}

RECURSIVE EmailLists(_)
EmailLists(n) ==
    IF n = 0 THEN {<<>>}
    ELSE EmailLists(n - 1)
             \cup {Append(es, e) : es \in {x \in EmailLists(n - 1) : Len(x) = n - 1},
                                   e \in Emails}

\* The arguments after "org invite" or "org revoke": none, or a path and
\* e-mail addresses.
OrgArgInputs ==
    {<<>>} \cup {<<p>> \o es : p \in {"org/", "org"}, es \in EmailLists(MaxEmails)}

InitOrg ==
    /\ orgCommand \in {"invite", "revoke"}
    /\ orgArgs \in OrgArgInputs
    /\ writePermission \in BOOLEAN
    /\ secretsCalls = <<>>
    /\ orgStatus = "start"
    /\ TargetIdle /\ LexerIdle /\ BuildIdle /\ GitIdle /\ SignalIdle /\ LowerIdle

ActionOrgInvite ==
    /\ orgStatus = "start"
    /\ orgCommand = "invite"
    /\ \E clientOk \in BOOLEAN, callOk \in BOOLEAN :
           LET r == actionOrgInvite(orgArgs, writePermission, clientOk, callOk)
           IN  /\ secretsCalls' = r.calls
               /\ orgStatus' = IF r.err THEN "error" ELSE "ok"
    /\ UNCHANGED <<orgCommand, orgArgs, writePermission>>
    /\ UNCHANGED <<targetVars, lexerVars, buildVars, gitVars, signalVars, lowerVars>>

ActionOrgRevoke ==
    /\ orgStatus = "start"
    /\ orgCommand = "revoke"
    /\ \E clientOk \in BOOLEAN, callOk \in BOOLEAN :
           LET r == actionOrgRevoke(orgArgs, clientOk, callOk)
           IN  /\ secretsCalls' = r.calls
               /\ orgStatus' = IF r.err THEN "error" ELSE "ok"
    /\ UNCHANGED <<orgCommand, orgArgs, writePermission>>
    /\ UNCHANGED <<targetVars, lexerVars, buildVars, gitVars, signalVars, lowerVars>>

NextOrg ==
    \/ ActionOrgInvite
    \/ ActionOrgRevoke

SpecOrg == InitOrg /\ [][NextOrg]_vars

(***************************************************************************)
(* The git configuration (hasSSHKeys, updateGitLookupConfig) and the       *)
(* buildcontext.GitLookup it configures.                                   *)
(***************************************************************************)
\* Largest number of keys the ssh agent holds.
MaxKeys == 2

\* hasSSHKeys: the socket is set, the agent answers and lists a key.
hasSSHKeys(sock, ag) ==
    IF sock = "" THEN FALSE
    ELSE IF ~ag.dial THEN FALSE
    ELSE IF ~ag.list THEN FALSE
    ELSE ag.keys > 0

\* GitLookup with its pre-configured matchers.
NewGitLookup ==
    [disableSSH |-> FALSE,
     matchers |-> << [name |-> "github.com", pattern |-> "github.com/[^/]+/[^/]+",
                      suffix |-> ".git", auth |-> "ssh"],
                     [name |-> "gitlab.com", pattern |-> "gitlab.com/[^/]+/[^/]+",
                      suffix |-> ".git", auth |-> "ssh"] >>]

\* GitLookup.DisableSSH: converts the ssh of the matchers configured so far
\* to https.
DisableSSH(gl) ==
    [disableSSH |-> TRUE,
     matchers |-> [i \in 1..Len(gl.matchers) |->
                      IF gl.matchers[i].auth = "ssh"
                      THEN [gl.matchers[i] EXCEPT !.auth = "https"]
                      ELSE gl.matchers[i]]]

\* GitLookup.AddMatcher
AddMatcher(gl, name, pattern, suffix, auth) ==
    [gl EXCEPT !.matchers =
        Append(gl.matchers,
               [name |-> name, pattern |-> pattern, suffix |-> suffix, auth |-> auth])]

\* strings.Contains
Contains(s, sub) == IndexFrom(s, sub, 1) # 0

\* The body of the loop of updateGitLookupConfig for the entry v of the
\* configuration.
RegisterEntry(gl, v, autoProtocol) ==
    LET host == IF ~Contains(v.name, ".") THEN v.name \o ".com" ELSE v.name
        pattern == IF v.pattern = "" THEN host \o "/[^/]+/[^/]+" ELSE v.pattern
        auth == IF v.auth = "auto" THEN autoProtocol ELSE v.auth
        suffix == IF v.suffix = "" THEN ".git" ELSE v.suffix
    IN  AddMatcher(gl, v.name, pattern, suffix, auth)

RECURSIVE RegisterAll(_, _, _)
RegisterAll(gl, entries, autoProtocol) ==
    IF entries = <<>> THEN gl
    ELSE RegisterAll(RegisterEntry(gl, Head(entries), autoProtocol), Tail(entries),
                     autoProtocol)

\* updateGitLookupConfig over the entries of the configuration in the order
\* the map gives them, the first failing of which AddMatcher refuses (none
\* when failing is beyond the last).
updateGitLookupConfig(gl, sock, ag, entries, failing) ==
    LET keys == hasSSHKeys(sock, ag)
        autoProtocol == IF keys THEN "ssh" ELSE "https"
        start == IF keys THEN gl ELSE DisableSSH(gl)
        done == IF failing <= Len(entries) THEN failing - 1 ELSE Len(entries)
    IN  [gitLookup |-> RegisterAll(start, SubSeq(entries, 1, done), autoProtocol),
         err |-> failing <= Len(entries),
         left |-> {entries[i] : i \in (done + 1)..Len(entries)}]

\* The orders in which a map of Go may be ranged over.
Orders(S) ==
    {sq \in [1..Cardinality(S) -> S] : \A i, j \in 1..Cardinality(S) : sq[i] = sq[j] => i = j}

\* The entries of the git section of the configuration, and the sections
\* with at most one entry of a name.
GitEntries ==
    [name : {"corp"}, pattern : {""}, suffix : {"", ".x"}, auth : {"ssh", "https", "auto"}]
        \cup [name : {"example.org"}, pattern : {"", "example.org/x/[^/]+"},
              suffix : {""}, auth : {"ssh", "https", "auto"}]

GitConfigs ==
    {c \in SUBSET GitEntries : \A v, w \in c : v.name = w.name => v = w}

InitGit ==
    /\ sshAuthSock \in {"", "/tmp/agent.sock"}
    /\ sshAgent \in [dial : BOOLEAN, list : BOOLEAN, keys : 0..MaxKeys]
    /\ cfgGit \in GitConfigs
    /\ gitLookup = NewGitLookup
    /\ gitTodo = cfgGit
    /\ gitStatus = "start"
    /\ TargetIdle /\ LexerIdle /\ BuildIdle /\ OrgIdle /\ SignalIdle /\ LowerIdle

UpdateGitLookupConfig ==
    /\ gitStatus = "start"
    /\ \E entries \in Orders(cfgGit), failing \in 1..(Cardinality(cfgGit) + 1) :
           LET r == updateGitLookupConfig(gitLookup, sshAuthSock, sshAgent, entries, failing)
           IN  /\ gitLookup' = r.gitLookup
               /\ gitTodo' = r.left
               /\ gitStatus' = IF r.err THEN "error" ELSE "done"
    /\ UNCHANGED <<sshAuthSock, sshAgent, cfgGit>>
    /\ UNCHANGED <<targetVars, lexerVars, buildVars, orgVars, signalVars, lowerVars>>

NextGit == UpdateGitLookupConfig

SpecGit == InitGit /\ [][NextGit]_vars

(***************************************************************************)
(* main: the signal goroutine, the timer it starts and app.run.            *)
(***************************************************************************)
\* Largest number of signals sent to the process.
MaxSignals == 3

\* The seconds the timer sleeps and the exit code of a forced exit.
SleepSeconds == 30
ForcedExit == 9

\* The exit codes of earthlyApp.run: 0 without error, 2 for an error that is
\* context.Canceled, 1 for another.
RunExitCodes(cancelled) == IF cancelled THEN {0, 1, 2} ELSE {0, 1}

\* main has made the context and the channel, started the signal goroutine
\* and calls app.run.
InitSignal ==
    /\ mainPc = "run"
    /\ runExit = -1
    /\ ctxCancelled = FALSE
    /\ sigChan = <<>>
    /\ receivedSignal = FALSE
    /\ timerElapsed = -1
    /\ sent = 0
    /\ exitCode = -1
    /\ TargetIdle /\ LexerIdle /\ BuildIdle /\ OrgIdle /\ GitIdle /\ LowerIdle

\* SIGINT or SIGTERM is sent to the process: signal.Notify puts it into the
\* channel of capacity 1 when there is room and drops it otherwise.
SendSignal ==
    /\ exitCode = -1
    /\ sent < MaxSignals
    /\ sent' = sent + 1
    /\ \E sig \in {"SIGINT", "SIGTERM"} :
           sigChan' = IF Len(sigChan) < 1 THEN Append(sigChan, sig) ELSE sigChan
    /\ UNCHANGED <<mainPc, runExit, ctxCancelled, receivedSignal, timerElapsed, exitCode>>
    /\ UNCHANGED <<targetVars, lexerVars, buildVars, orgVars, gitVars, lowerVars>>

\* The signal goroutine reads a signal from the channel without starting the
\* timer (a first signal that only cancels).
ReceiveSignalNoTimer ==
    /\ exitCode = -1
    /\ sigChan # <<>>
    /\ sigChan' = Tail(sigChan)
    /\ ctxCancelled' = TRUE
    /\ IF receivedSignal
       THEN exitCode' = ForcedExit /\ UNCHANGED <<receivedSignal, timerElapsed>>
       ELSE receivedSignal' = TRUE /\ UNCHANGED <<exitCode, timerElapsed>>
    /\ UNCHANGED <<mainPc, runExit, sent>>
    /\ UNCHANGED <<targetVars, lexerVars, buildVars, orgVars, gitVars, lowerVars>>

\* The signal goroutine reads a signal from the channel: it cancels the
\* context; on a second signal it exits with 9, on the first it sets
\* receivedSignal and starts the timer.
ReceiveSignal ==
    /\ exitCode = -1
    /\ sigChan # <<>>
    /\ sigChan' = Tail(sigChan)
    /\ ctxCancelled' = TRUE
    /\ IF receivedSignal
       THEN exitCode' = ForcedExit /\ UNCHANGED <<receivedSignal, timerElapsed>>
       ELSE receivedSignal' = TRUE /\ timerElapsed' = 0 /\ UNCHANGED exitCode
    /\ UNCHANGED <<mainPc, runExit, sent>>
    /\ UNCHANGED <<targetVars, lexerVars, buildVars, orgVars, gitVars, lowerVars>>

\* A second of the sleep of the timer goroutine passes.
Tick ==
    /\ exitCode = -1
    /\ timerElapsed >= 0
    /\ timerElapsed < SleepSeconds
    /\ timerElapsed' = timerElapsed + 1
    /\ UNCHANGED <<mainPc, runExit, ctxCancelled, sigChan, receivedSignal, sent, exitCode>>
    /\ UNCHANGED <<targetVars, lexerVars, buildVars, orgVars, gitVars, lowerVars>>

\* The timer goroutine wakes up and exits with 9.
TimerFire ==
    /\ exitCode = -1
    /\ timerElapsed = SleepSeconds
    /\ exitCode' = ForcedExit
    /\ UNCHANGED <<mainPc, runExit, ctxCancelled, sigChan, receivedSignal, timerElapsed, sent>>
    /\ UNCHANGED <<targetVars, lexerVars, buildVars, orgVars, gitVars, lowerVars>>

\* app.run returns its exit code to main.
RunReturns ==
    /\ exitCode = -1
    /\ mainPc = "run"
    /\ runExit' \in RunExitCodes(ctxCancelled)
    /\ mainPc' = "returned"
    /\ UNCHANGED <<ctxCancelled, sigChan, receivedSignal, timerElapsed, sent, exitCode>>
    /\ UNCHANGED <<targetVars, lexerVars, buildVars, orgVars, gitVars, lowerVars>>

\* main, after the analytics, exits with the code of app.run.
MainExit ==
    /\ exitCode = -1
    /\ mainPc = "returned"
    /\ exitCode' = runExit
    /\ UNCHANGED <<mainPc, runExit, ctxCancelled, sigChan, receivedSignal, timerElapsed, sent>>
    /\ UNCHANGED <<targetVars, lexerVars, buildVars, orgVars, gitVars, lowerVars>>

NextSignal ==
    \/ SendSignal
    \/ ReceiveSignal
    \/ Tick
    \/ TimerFire
    \/ RunReturns
    \/ MainExit

SpecSignal == InitSignal /\ [][NextSignal]_vars

\* The timer goroutine is scheduled and its sleep ends.
SpecSignalFair == SpecSignal /\ WF_vars(Tick) /\ WF_vars(TimerFire)

(***************************************************************************)
(* Lowering: the dependencies of the target asked for are searched depth   *)
(* first, with gray and black marks, and the build graph is emitted when   *)
(* the search ends without a cycle.                                        *)
(***************************************************************************)
\* Largest number of references to targets in the recipe of one target.
MaxDeps == 2

\* The targets of the recipe.
Targets == {"a", "b", "c"}

\* The references of the recipe of a target (BUILD, COPY, FROM), in the
\* order of the commands, each target once.
DepLists ==
    {sq \in UNION {[1..n -> Targets] : n \in 0..MaxDeps} :
         \A i, j \in 1..Len(sq) : sq[i] = sq[j] => i = j}

\* A target that is on the path of the search: never, were the gray mark
\* not looked at.
NeverOnPath(mark) == FALSE

\* A target that is on the path of the search has the gray mark.
IsOnPath(mark) == mark = "gray"

\* The path of a cycle: the targets on the path of the search from the
\* target met again to the top, and that target again.
CyclePathOf(path, target) ==
    LET from == CHOOSE i \in 1..Len(path) : path[i].node = target
    IN  [i \in 1..(Len(path) - from + 1) |-> path[from + i - 1].node] \o <<target>>

InitLower ==
    /\ recipeDeps \in [Targets -> DepLists]
    /\ lowRoot \in Targets
    /\ color = [t \in Targets |-> "white"]
    /\ dfsStack = <<>>
    /\ nodes = <<>>
    /\ lowerStatus = "start"
    /\ cyclePath = <<>>
    /\ TargetIdle /\ LexerIdle /\ BuildIdle /\ OrgIdle /\ GitIdle /\ SignalIdle

\* The target asked for is entered.
StartLowering ==
    /\ lowerStatus = "start"
    /\ color' = [color EXCEPT ![lowRoot] = "gray"]
    /\ dfsStack' = <<[node |-> lowRoot, next |-> 1]>>
    /\ lowerStatus' = "search"
    /\ UNCHANGED <<recipeDeps, lowRoot, nodes, cyclePath>>
    /\ UNCHANGED <<targetVars, lexerVars, buildVars, orgVars, gitVars, signalVars>>

\* The target on top of the path and its next reference, when it has one.
Top == dfsStack[Len(dfsStack)]
HasNextDep == Top.next <= Len(recipeDeps[Top.node])
NextDep == recipeDeps[Top.node][Top.next]

\* The next reference is to a target not met yet: it is entered.
EnterDep ==
    /\ lowerStatus = "search"
    /\ HasNextDep
    /\ color[NextDep] = "white"
    /\ color' = [color EXCEPT ![NextDep] = "gray"]
    /\ dfsStack' = Append(dfsStack, [node |-> NextDep, next |-> 1])
    /\ UNCHANGED <<recipeDeps, lowRoot, nodes, lowerStatus, cyclePath>>
    /\ UNCHANGED <<targetVars, lexerVars, buildVars, orgVars, gitVars, signalVars>>

\* The next reference is to a target already lowered: it is a dep and
\* nothing more is done.
SkipDep ==
    /\ lowerStatus = "search"
    /\ HasNextDep
    /\ color[NextDep] # "white"
    /\ ~IsOnPath(color[NextDep])
    /\ dfsStack' = [dfsStack EXCEPT ![Len(dfsStack)].next = @ + 1]
    /\ UNCHANGED <<recipeDeps, lowRoot, color, nodes, lowerStatus, cyclePath>>
    /\ UNCHANGED <<targetVars, lexerVars, buildVars, orgVars, gitVars, signalVars>>

\* The next reference is to a target on the path: CycleError with the path
\* of the cycle, and no graph.
ReportCycle ==
    /\ lowerStatus = "search"
    /\ HasNextDep
    /\ color[NextDep] # "white"
    /\ IsOnPath(color[NextDep])
    /\ lowerStatus' = "CycleError"
    /\ cyclePath' = CyclePathOf(dfsStack, NextDep)
    /\ nodes' = <<>>
    /\ UNCHANGED <<recipeDeps, lowRoot, color, dfsStack>>
    /\ UNCHANGED <<targetVars, lexerVars, buildVars, orgVars, gitVars, signalVars>>

\* The target on top has no reference left: it gets the black mark and the
\* search goes back to the target that referred to it.
FinishTarget ==
    /\ lowerStatus = "search"
    /\ ~HasNextDep
    /\ Len(dfsStack) > 1
    /\ color' = [color EXCEPT ![Top.node] = "black"]
    /\ dfsStack' = [i \in 1..(Len(dfsStack) - 1) |->
                       IF i = Len(dfsStack) - 1
                       THEN [dfsStack[i] EXCEPT !.next = @ + 1]
                       ELSE dfsStack[i]]
    /\ UNCHANGED <<recipeDeps, lowRoot, nodes, lowerStatus, cyclePath>>
    /\ UNCHANGED <<targetVars, lexerVars, buildVars, orgVars, gitVars, signalVars>>

\* The target asked for has no reference left: the graph of the targets met
\* is emitted, each node with its deps.
EmitGraph ==
    /\ lowerStatus = "search"
    /\ ~HasNextDep
    /\ Len(dfsStack) = 1
    /\ color' = [color EXCEPT ![Top.node] = "black"]
    /\ dfsStack' = <<>>
    /\ nodes' = [t \in {u \in Targets : color'[u] # "white"} |->
                    {recipeDeps[t][i] : i \in 1..Len(recipeDeps[t])}]
    /\ lowerStatus' = "done"
    /\ UNCHANGED <<recipeDeps, lowRoot, cyclePath>>
    /\ UNCHANGED <<targetVars, lexerVars, buildVars, orgVars, gitVars, signalVars>>

NextLower ==
    \/ StartLowering
    \/ EnterDep
    \/ SkipDep
    \/ ReportCycle
    \/ FinishTarget
    \/ EmitGraph

SpecLower == InitLower /\ [][NextLower]_vars

(***************************************************************************)
(* Vocabulary of the claims: the reference grammar and POSIX path          *)
(* resolution, stated on path segments.                                    *)
(***************************************************************************)
\* The "/"-separated segments of s.
RECURSIVE SplitSlash(_)
SplitSlash(s) ==
    LET i == IndexFrom(s, "/", 1)
    IN  IF i = 0 THEN <<s>>
        ELSE <<SubSeq(s, 1, i - 1)>> \o SplitSlash(From(s, i + 1))

RECURSIVE JoinSlash(_)
JoinSlash(segs) ==
    IF segs = <<>> THEN ""
    ELSE IF Len(segs) = 1 THEN segs[1]
    ELSE segs[1] \o "/" \o JoinSlash(Tail(segs))

\* A segment that names a directory entry.
IsName(sg) == sg \notin {"", ".", ".."}

\* The reference as the claims read it: the text before the first "+" (the
\* prefix), the text after it (the name), and the prefix cut at its first ":".
HasPlus(s) == IndexFrom(s, "+", 1) # 0
PrefixOf(s) == SubSeq(s, 1, IndexFrom(s, "+", 1) - 1)
NameOf(s) == From(s, IndexFrom(s, "+", 1) + 1)
PathOf(prefix) ==
    IF IndexFrom(prefix, ":", 1) = 0 THEN prefix
    ELSE SubSeq(prefix, 1, IndexFrom(prefix, ":", 1) - 1)
TagOf(prefix) ==
    IF IndexFrom(prefix, ":", 1) = 0 THEN ""
    ELSE From(prefix, IndexFrom(prefix, ":", 1) + 1)
LooksLocal(prefix) == HasPrefix(prefix, ".") \/ HasPrefix(prefix, "/")

\* A normalized local path: "/" or "/" and names; or "./" and names; or a run
\* of ".." followed by names.
NormalAbs(p) ==
    LET segs == SplitSlash(p)
    IN  /\ segs[1] = ""
        /\ Len(segs) >= 2
        /\ p = "/" \/ \A k \in 2..Len(segs) : IsName(segs[k])
NormalRel(p) ==
    LET segs == SplitSlash(p)
    IN  \/ /\ segs[1] = "."
           /\ Len(segs) >= 2
           /\ \A k \in 2..Len(segs) : IsName(segs[k])
        \/ /\ segs[1] = ".."
           /\ \A k \in 2..Len(segs) :
                  \/ IsName(segs[k])
                  \/ segs[k] = ".." /\ segs[k - 1] = ".."
NormalLocalPath(p) == NormalAbs(p) \/ NormalRel(p)

\* A normalized remote prefix: host/org/repo[/sub][:tag], the host one of the
\* matchers' hosts, every segment a name.
KnownHosts == {"github.com", "gitlab.com", "bitbucket.com"}
NormalRemote(prefix) ==
    LET segs == SplitSlash(PathOf(prefix))
    IN  /\ Len(segs) >= 3
        /\ segs[1] \in KnownHosts
        /\ \A k \in 2..Len(segs) : IsName(segs[k])
        /\ IndexFrom(prefix, ":", 1) # 0 =>
               /\ TagOf(prefix) # ""
               /\ IndexFrom(TagOf(prefix), ":", 1) = 0

\* A reference string in normalized form, of one of the three origins.
NormalRef(s) ==
    /\ HasPlus(s)
    /\ NameOf(s) # ""
    /\ ~HasPlus(NameOf(s))
    /\ \/ PrefixOf(s) = ""
       \/ NormalLocalPath(PrefixOf(s))
       \/ NormalRemote(PrefixOf(s))

\* POSIX resolution of a path on its segments: empty and "." segments
\* vanish, ".." removes the name before it, stays when there is none and
\* the path is relative, and vanishes at the root.
RECURSIVE ResolveSegs(_, _, _, _)
ResolveSegs(segs, k, stack, rooted) ==
    IF k > Len(segs) THEN stack
    ELSE IF segs[k] \in {"", "."} THEN ResolveSegs(segs, k + 1, stack, rooted)
    ELSE IF segs[k] = ".."
         THEN IF Len(stack) > 0 /\ stack[Len(stack)] # ".."
              THEN ResolveSegs(segs, k + 1, SubSeq(stack, 1, Len(stack) - 1), rooted)
              ELSE IF rooted THEN ResolveSegs(segs, k + 1, stack, rooted)
              ELSE ResolveSegs(segs, k + 1, Append(stack, ".."), rooted)
    ELSE ResolveSegs(segs, k + 1, Append(stack, segs[k]), rooted)

PosixResolve(p) ==
    LET rooted == HasPrefix(p, "/")
        st == ResolveSegs(SplitSlash(p), 1, <<>>, rooted)
    IN  IF rooted THEN "/" \o JoinSlash(st)
        ELSE IF st = <<>> THEN "." ELSE JoinSlash(st)

\* The "./" prefix rule: a path that does not begin with "." gets "./".
DotSlashRule(p) == IF HasPrefix(p, ".") THEN p ELSE "./" \o p

IsLocal(et) == IsLocalInternal(et) \/ IsLocalExternal(et)

(***************************************************************************)
(* Claims C1 .. C10.                                                       *)
(***************************************************************************)
\* C1 (as stated): a normalized reference string that ParseTarget accepts is
\* rendered back unchanged by String(), and a normalized remote one also by
\* StringCanonical().
C1_RoundTrip ==
    (pc = "rendered" /\ NormalRef(fullTargetName)) =>
        /\ rendered.str = fullTargetName
        /\ NormalRemote(PrefixOf(fullTargetName)) =>
               rendered.canonical = fullTargetName

\* C2 (as stated): the prefix before the first "+" decides the origin: empty
\* gives LocalInternal with local_path ".", a leading "." or "/" always
\* gives LocalExternal, anything else gives Remote with the tag after the
\* first ":"; the name is the text after the first "+".
C2_ClassifiedByPrefix ==
    (pc = "parsed" /\ ~parsed.err) =>
        LET prefix == PrefixOf(fullTargetName)
        IN  /\ target2.Target = NameOf(fullTargetName)
            /\ prefix = "" =>
                   IsLocalInternal(target2) /\ target2.LocalPath = "."
            /\ LooksLocal(prefix) =>
                   /\ IsLocalExternal(target2)
                   /\ ~IsLocalInternal(target2)
                   /\ ~IsRemote(target2)
            /\ (prefix # "" /\ ~LooksLocal(prefix)) =>
                   IsRemote(target2) /\ target2.Tag = TagOf(prefix)

\* C2 (amended): as C2, except that a prefix with a leading "." or "/" that
\* path-cleans to "." (".", "./", "./.", "a/.." forms) gives LocalInternal
\* with local_path "."; every other such prefix gives LocalExternal.
C2_ClassifiedByCleanedPrefix ==
    (pc = "parsed" /\ ~parsed.err) =>
        LET prefix == PrefixOf(fullTargetName)
        IN  /\ target2.Target = NameOf(fullTargetName)
            /\ prefix = "" =>
                   IsLocalInternal(target2) /\ target2.LocalPath = "."
            /\ (LooksLocal(prefix) /\ PosixResolve(prefix) = ".") =>
                   /\ IsLocalInternal(target2)
                   /\ ~IsLocalExternal(target2)
                   /\ ~IsRemote(target2)
            /\ (LooksLocal(prefix) /\ PosixResolve(prefix) # ".") =>
                   /\ IsLocalExternal(target2)
                   /\ ~IsLocalInternal(target2)
                   /\ ~IsRemote(target2)
            /\ (prefix # "" /\ ~LooksLocal(prefix)) =>
                   IsRemote(target2) /\ target2.Tag = TagOf(prefix)

\* C2 witness: a reference whose dotted prefix cleans to "." has been parsed
\* and is LocalInternal.
C2_Witness ==
    /\ pc = "parsed"
    /\ ~parsed.err
    /\ fullTargetName = "./.+t"
    /\ IsLocalInternal(target2)
    /\ target2.Target = "t"

\* The origins of the data model: exactly one of them holds of a Target.
OriginCount(et) ==
    Cardinality({o \in {"internal", "external", "remote"} :
        \/ o = "internal" /\ et.LocalPath = "."
        \/ o = "external" /\ et.LocalPath # "" /\ et.LocalPath # "."
        \/ o = "remote" /\ IsRemote(et) /\ et.GitURL # ""})

\* C3 (as stated): every Target returned without error by ParseTarget or
\* JoinTargets is exactly one of LocalInternal, LocalExternal (local_path
\* neither empty nor "."), Remote with a non-empty git_url.
C3_ExactlyOneOrigin ==
    /\ (pc = "parsed" /\ ~parsed.err) => OriginCount(parsed.target) = 1
    /\ (pc = "joined" /\ joined.outcome = "ok") => OriginCount(joined.target) = 1

\* No matcher accepts the path.
Unmatched(path) ==
    \A m \in 1..Len(matchers) : FindString(matchers[m].pattern, path) = ""

\* C4 (as stated): a remote prefix that no git-origin matcher accepts makes
\* ParseTarget return an error.
C4_UnmatchedRemoteIsError ==
    ( /\ pc = "parsed"
      /\ HasPlus(fullTargetName)
      /\ PrefixOf(fullTargetName) # ""
      /\ ~LooksLocal(PrefixOf(fullTargetName))
      /\ Unmatched(PathOf(PrefixOf(fullTargetName))) ) => parsed.err

\* C5 (as stated): a Remote caller and a reference that is not Remote join,
\* without error or panic, to a Remote Target with the caller's git_url and
\* tag and the reference's name; its git_sub_path is the caller's for a
\* LocalInternal reference and the caller's joined with the reference's
\* local_path for a relative LocalExternal one.
C5_RemoteCallerJoin ==
    ( /\ pc = "joined"
      /\ IsRemote(target1)
      /\ ~IsRemote(target2)
      /\ ~IsAbs(target2.LocalPath) ) =>
        /\ joined.outcome = "ok"
        /\ IsRemote(joined.target)
        /\ joined.target.GitURL = target1.GitURL
        /\ joined.target.Tag = target1.Tag
        /\ joined.target.Target = target2.Target
        /\ joined.target.GitPath =
               IF IsLocalInternal(target2) THEN target1.GitPath
               ELSE PosixResolve(target1.GitPath \o "/" \o target2.LocalPath)

\* C6 (as stated): a Remote caller and a LocalExternal reference with an
\* absolute local_path give an error value, no panic and no Target.
C6_AbsoluteRefInRemoteContextIsError ==
    ( /\ pc = "joined"
      /\ IsRemote(target1)
      /\ IsLocalExternal(target2)
      /\ IsAbs(target2.LocalPath) ) => joined.outcome = "error"

\* C7 (as stated): the local_path of every LocalExternal Target that
\* ParseTarget returns, or that JoinTargets returns for a local caller and a
\* LocalExternal reference, is normalized.
C7_LocalPathNormalized ==
    /\ (pc = "parsed" /\ ~parsed.err /\ IsLocalExternal(parsed.target)) =>
           NormalLocalPath(parsed.target.LocalPath)
    /\ ( /\ pc = "joined"
         /\ joined.outcome = "ok"
         /\ IsLocal(target1)
         /\ IsLocalExternal(target2)
         /\ IsLocalExternal(joined.target) ) =>
           NormalLocalPath(joined.target.LocalPath)

\* C8 (as stated): a local caller and a LocalExternal reference: an absolute reference
\* path is kept, path-cleaned, whatever the caller; a relative one is
\* resolved against the caller's local_path, with the "./" rule applied, and
\* the result is absolute exactly when the caller's local_path is.
C8_LocalJoin ==
    (pc = "joined" /\ IsLocal(target1) /\ IsLocalExternal(target2)) =>
        /\ joined.outcome = "ok"
        /\ joined.target = [target2 EXCEPT !.LocalPath = joined.target.LocalPath]
        /\ IF IsAbs(target2.LocalPath)
           THEN joined.target.LocalPath = PosixResolve(target2.LocalPath)
           ELSE /\ joined.target.LocalPath =
                       DotSlashRule(PosixResolve(
                           target1.LocalPath \o "/" \o target2.LocalPath))
                /\ IsAbs(joined.target.LocalPath) <=> IsAbs(target1.LocalPath)

\* C9: a local caller and a LocalInternal reference: the result has the
\* caller's local_path and the reference's name, so that it is LocalInternal
\* exactly when the caller is.
C9_InternalRefInheritsCallerPath ==
    (pc = "joined" /\ IsLocal(target1) /\ IsLocalInternal(target2)) =>
        /\ joined.outcome = "ok"
        /\ joined.target.LocalPath = target1.LocalPath
        /\ joined.target.Target = target2.Target
        /\ IsLocalInternal(joined.target) <=> IsLocalInternal(target1)

\* C9 witness: a LocalInternal reference has been joined onto a LocalExternal
\* caller of another name.
C9_Witness ==
    /\ pc = "joined"
    /\ IsLocalExternal(target1)
    /\ IsLocalInternal(target2)
    /\ target1.Target # target2.Target
    /\ IsLocalExternal(joined.target)

\* C10: a Remote reference is returned unchanged, in every field and
\* without error, whatever the caller.
C10_RemoteRefUnchanged ==
    (pc = "joined" /\ IsRemote(target2)) =>
        /\ joined.outcome = "ok"
        /\ joined.target = target2

\* C10 witness: a Remote reference has been joined onto a Remote caller with
\* another git_url, sub path and tag.
C10_Witness ==
    /\ pc = "joined"
    /\ IsRemote(target1)
    /\ IsRemote(target2)
    /\ target2.GitURL # ""
    /\ target1.GitURL # target2.GitURL
    /\ target1.GitPath # target2.GitPath
    /\ target1.Tag # target2.Tag
    /\ joined.target = target2

\* C11: ParseTarget returns an error, and no Target, for a reference without
\* "+" and for a reference whose name after the "+" is empty ("+", "./a+").
C11_NoPlusOrEmptyNameIsError ==
    (pc = "parsed" /\ (~HasPlus(fullTargetName) \/ NameOf(fullTargetName) = "")) =>
        /\ parsed.err
        /\ parsed.target = ZeroTarget

\* The Remote rendering of the reference model:
\* git_url "/" git_sub_path [":" tag] "+" name.
RemoteRendering(r) ==
    r.GitURL \o "/" \o r.GitPath
        \o (IF r.Tag # "" THEN ":" \o r.Tag ELSE "") \o "+" \o r.Target

\* C12: the canonical rendering is idempotent: for every Target that
\* ParseTarget returns, parsing its StringCanonical succeeds and renders
\* canonically to the same string; the canonical rendering is the Remote form
\* when git_url is not empty and equals String() otherwise.
C12_CanonicalIdempotent ==
    pc = "reparsed" =>
        /\ ~reparsed.err
        /\ reparsed.canonical = rendered.canonical
        /\ target2.GitURL # "" => rendered.canonical = RemoteRendering(target2)
        /\ target2.GitURL = "" => rendered.canonical = rendered.str

\* The final segment of a local path (the root is its own final segment).
FinalSegment(p) ==
    LET segs == SplitSlash(p)
    IN  IF p = "/" THEN "/" ELSE segs[Len(segs)]

\* C13: ProjectCanonical of a Remote Target is git_url, then "/" and
\* git_sub_path only when git_sub_path is not empty, then ":" and tag only
\* when tag is not empty; of a LocalInternal Target it is the empty string; of
\* a LocalExternal Target it is the final segment of local_path.
C13_ProjectCanonical ==
    pc = "rendered" =>
        LET r == target2
        IN  rendered.project =
                IF IsRemote(r)
                THEN r.GitURL
                        \o (IF r.GitPath # "" THEN "/" \o r.GitPath ELSE "")
                        \o (IF r.Tag # "" THEN ":" \o r.Tag ELSE "")
                ELSE IF IsLocalInternal(r) THEN ""
                ELSE FinalSegment(r.LocalPath)


(***************************************************************************)
(* Vocabulary of the lexer claims: the lines of a recipe and what the       *)
(* lexer contract expects of them, stated on lines and not on tokens.       *)
(***************************************************************************)
\* The "\n"-separated lines of s; the last one is empty when s ends with a
\* newline.
RECURSIVE SplitLines(_)
SplitLines(s) ==
    LET i == IndexFrom(s, "\n", 1)
    IN  IF i = 0 THEN <<s>>
        ELSE <<SubSeq(s, 1, i - 1)>> \o SplitLines(From(s, i + 1))

\* s without its line continuations: each backslash-newline is deleted with
\* the blanks that follow it.
RECURSIVE DropBlanks(_)
DropBlanks(s) ==
    IF s # "" /\ SubSeq(s, 1, 1) \in {" ", "\t"} THEN DropBlanks(From(s, 2)) ELSE s

RECURSIVE RemoveLC(_)
RemoveLC(s) ==
    IF s = "" THEN ""
    ELSE IF HasPrefix(s, "\\\n") THEN RemoveLC(DropBlanks(From(s, 3)))
    ELSE SubSeq(s, 1, 1) \o RemoveLC(From(s, 2))

\* The maximal runs of blanks and of other bytes of a line, in order.
RECURSIVE RunEnd(_, _)
RunEnd(line, i) ==
    IF i < Len(line) /\ IsBlank(Char(line, i + 1)) = IsBlank(Char(line, i))
    THEN RunEnd(line, i + 1)
    ELSE i

RECURSIVE Runs(_)
Runs(line) ==
    IF line = "" THEN <<>>
    ELSE <<SubSeq(line, 1, RunEnd(line, 1))>> \o Runs(From(line, RunEnd(line, 1) + 1))

IsBlankRun(run) == IsBlank(Char(run, 1))

\* A line that bears content, and the level the k-th line starts at: the
\* number of blank runs that lead it after a newline (none leads the first
\* line after a newline).
HasContent(line) == \E i \in 1..Len(line) : ~IsBlank(Char(line, i))
LevelOf(lines, k) == IF k > 1 /\ IsBlank(Char(lines[k], 1)) THEN 1 ELSE 0

\* What a line that starts at level gives when the level recorded before it
\* is prev: a WS per blank run, the text of every other run, and INDENT or
\* DEDENT just before the first content of a line that starts at another
\* level.
ExpectedOfLine(line, level, prev) ==
    LET runs == Runs(line)
        mark == IF level > prev THEN <<"INDENT">>
                ELSE IF level < prev THEN <<"DEDENT">>
                ELSE <<>>
        first == CHOOSE i \in 1..Len(runs) : ~IsBlankRun(runs[i]) /\
                     \A j \in 1..(i - 1) : IsBlankRun(runs[j])
        Out(i) == IF IsBlankRun(runs[i]) THEN <<"WS">>
                  ELSE IF i = first THEN mark \o <<runs[i]>>
                  ELSE <<runs[i]>>
        Cat[i \in 0..Len(runs)] == IF i = 0 THEN <<>> ELSE Cat[i - 1] \o Out(i)
    IN  IF HasContent(line) THEN Cat[Len(runs)]
        ELSE [i \in 1..Len(runs) |-> "WS"]

\* What the lines from the k-th on give, an NL after each but the last.
RECURSIVE ExpectedFrom(_, _, _)
ExpectedFrom(lines, k, prev) ==
    IF k > Len(lines) THEN <<>>
    ELSE ExpectedOfLine(lines[k], LevelOf(lines, k), prev)
            \o (IF k < Len(lines) THEN <<"NL">> ELSE <<>>)
            \o ExpectedFrom(lines, k + 1,
                   IF HasContent(lines[k]) THEN LevelOf(lines, k) ELSE prev)

ExpectedTokens(s) == ExpectedFrom(SplitLines(RemoveLC(s)), 1, 0)

\* The tokens returned: the text of a content token, the type of any other.
IsContentToken(tk) == tk.type \in {"Target", "Command", "Atom"}
Returned == [i \in 1..Len(tokens) |-> IF IsContentToken(tokens[i])
                                      THEN tokens[i].text ELSE tokens[i].type]

IsPrefixOf(s, t) == Len(s) <= Len(t) /\ SubSeq(t, 1, Len(s)) = s

\* A recipe without a here-document.
NoHereDoc(s) == StringsIndex(s, "<<") = 0

CountOf(type) == Cardinality({i \in 1..Len(tokens) : tokens[i].type = type})

\* C15: at the end of the input the lexer emits DEDENTs back to level 0
\* before EOF, whether or not the last line ends with a newline: a recipe
\* lexed to EOF has as many DEDENTs as INDENTs.
C15_DedentsBeforeEOF ==
    lexStatus = "done" => CountOf("DEDENT") = CountOf("INDENT")

\* The visible column at which the content of a line starts: a space takes
\* one column, a tab goes to the next multiple of 8.
RECURSIVE ColumnFrom(_, _, _)
ColumnFrom(line, i, col) ==
    IF Char(line, i) = " " THEN ColumnFrom(line, i + 1, col + 1)
    ELSE IF Char(line, i) = "\t" THEN ColumnFrom(line, i + 1, ((col \div 8) + 1) * 8)
    ELSE col

\* The column of the k-th line; the first line, which no newline leads, is at 0.
ColumnOf(lines, k) == IF k = 1 THEN 0 ELSE ColumnFrom(lines[k], 1, 0)

\* The open levels, as the stack of their columns, that are left open by a
\* line at column col.
RECURSIVE KeepOpen(_, _)
KeepOpen(open, col) ==
    IF Len(open) > 1 /\ open[Len(open)] > col
    THEN KeepOpen(SubSeq(open, 1, Len(open) - 1), col)
    ELSE open

\* For every content-bearing line, from the k-th on, that closes levels, the
\* number of levels it closes.
RECURSIVE ClosedLevels(_, _, _)
ClosedLevels(lines, k, open) ==
    IF k > Len(lines) THEN <<>>
    ELSE IF ~HasContent(lines[k]) THEN ClosedLevels(lines, k + 1, open)
    ELSE LET col == ColumnOf(lines, k)
             kept == KeepOpen(open, col)
             now == IF col > kept[Len(kept)] THEN Append(kept, col) ELSE kept
         IN  (IF Len(kept) < Len(open) THEN <<Len(open) - Len(kept)>> ELSE <<>>)
                 \o ClosedLevels(lines, k + 1, now)

\* The number of DEDENTs in a row that end just before the i-th token returned.
RECURSIVE DedentsBefore(_)
DedentsBefore(i) ==
    IF i > 1 /\ tokens[i - 1].type = "DEDENT" THEN 1 + DedentsBefore(i - 1) ELSE 0

\* For every content token, up to the i-th, that follows DEDENTs, their number.
RECURSIVE DedentRuns(_)
DedentRuns(i) ==
    IF i = 0 THEN <<>>
    ELSE DedentRuns(i - 1)
            \o (IF IsContentToken(tokens[i]) /\ DedentsBefore(i) > 0
                THEN <<DedentsBefore(i)>> ELSE <<>>)

MoreThanOne(n) == n > 1

\* C16: a content-bearing line that closes more than one level is preceded
\* by one DEDENT per closed level: the runs of several DEDENTs before content
\* tokens are as long as the numbers of levels closed by the lines that close
\* several.
C16_OneDedentPerClosedLevel ==
    (lexStatus = "done" /\ NoHereDoc(input)) =>
        SelectSeq(DedentRuns(Len(tokens)), MoreThanOne)
            = SelectSeq(ClosedLevels(SplitLines(RemoveLC(input)), 1, <<0>>), MoreThanOne)

\* The here-document of a recipe, read off its lines: the line that opens it
\* (0 when there is none), its tag, the first later line that is the tag
\* alone (0 when there is none), the lines between the two as the body, and
\* the position just after the closing tag.
OpeningLine(lines) ==
    IF \E i \in 1..Len(lines) : StringsIndex(lines[i], "<<") > 0
    THEN CHOOSE i \in 1..Len(lines) :
             /\ StringsIndex(lines[i], "<<") > 0
             /\ \A j \in 1..(i - 1) : StringsIndex(lines[j], "<<") = 0
    ELSE 0

TagOfHereDoc(lines) ==
    LET ln == lines[OpeningLine(lines)]
    IN  From(ln, StringsIndex(ln, "<<") + 2)

ClosingLine(lines) ==
    LET o == OpeningLine(lines)
    IN  IF \E j \in (o + 1)..Len(lines) : lines[j] = TagOfHereDoc(lines)
        THEN CHOOSE j \in (o + 1)..Len(lines) :
                 /\ lines[j] = TagOfHereDoc(lines)
                 /\ \A m \in (o + 1)..(j - 1) : lines[m] # TagOfHereDoc(lines)
        ELSE 0

RECURSIVE LinesText(_, _, _)
LinesText(lines, from, to) ==
    IF from > to THEN ""
    ELSE lines[from] \o "\n" \o LinesText(lines, from + 1, to)

BodyOfHereDoc(lines) ==
    LinesText(lines, OpeningLine(lines) + 1, ClosingLine(lines) - 1)

AfterClosingTag(lines) ==
    Len(LinesText(lines, 1, ClosingLine(lines) - 1)) + Len(TagOfHereDoc(lines)) + 1

HasClosedHereDoc(s) ==
    /\ OpeningLine(SplitLines(s)) > 0
    /\ TagOfHereDoc(SplitLines(s)) # ""
    /\ ClosingLine(SplitLines(s)) > 0

HasOpenHereDoc(s) ==
    /\ OpeningLine(SplitLines(s)) > 0
    /\ TagOfHereDoc(SplitLines(s)) # ""
    /\ ClosingLine(SplitLines(s)) = 0

\* The token returned for the atom that opens the here-document.
IsHereDocToken(tk) == tk.start = StringsIndex(input, "<<")

\* C17: a here-document is captured for any tag and any length of body: the
\* token of the atom "<<TAG" carries the text between the line after it and
\* the first line that is TAG alone, the input is then just past the closing
\* TAG (before or after the newline that ends its line), and the lexer does
\* not fail.
C17_HereDocCapture ==
    HasClosedHereDoc(input) =>
        /\ lexStatus # "panic"
        /\ lexStatus = "done" => \E i \in 1..Len(tokens) : IsHereDocToken(tokens[i])
        /\ \A i \in 1..Len(tokens) :
               IsHereDocToken(tokens[i]) =>
                   tokens[i].text = BodyOfHereDoc(SplitLines(input))
        /\ (tokens # <<>> /\ IsHereDocToken(tokens[Len(tokens)])) =>
               l.index \in { AfterClosingTag(SplitLines(input)),
                             AfterClosingTag(SplitLines(input)) + 1 }

\* C18: a here-document whose closing TAG is missing ends in a reported lex
\* error: the lexer does not panic, does not go on to EOF, and returns no
\* body token.
C18_UnclosedHereDocIsLexError ==
    HasOpenHereDoc(input) =>
        /\ lexStatus \in {"run", "LexError"}
        /\ \A i \in 1..Len(tokens) : ~IsHereDocToken(tokens[i])

\* The texts of the content tokens returned, in order.
RECURSIVE TextsOf(_)
TextsOf(tks) ==
    IF tks = <<>> THEN <<>> ELSE <<Head(tks).text>> \o TextsOf(Tail(tks))

ContentWords == TextsOf(SelectSeq(tokens, IsContentToken))

\* The words of a text: its runs of bytes that are neither blanks nor newlines.
RECURSIVE WordsOfLines(_)
WordsOfLines(lines) ==
    IF lines = <<>> THEN <<>>
    ELSE SelectSeq(Runs(Head(lines)), LAMBDA run : ~IsBlankRun(run))
            \o WordsOfLines(Tail(lines))

WordsOf(s) == WordsOfLines(SplitLines(s))

\* The words between "echo" and ">".
EchoArguments(words) ==
    LET e == CHOOSE i \in 1..Len(words) : words[i] = "echo"
        r == CHOOSE i \in 1..Len(words) : words[i] = ">"
    IN  SubSeq(words, e + 1, r - 1)

PushCommands(r) == {r[i].cmd : i \in {j \in 1..Len(r) : r[j].push}}

WasExecuted(cmd) == \E i \in 1..Len(executed) : executed[i] = cmd

\* C20: the command line's push flag reaches the builder unchanged as
\* BuildOpt.Push, and a command flagged --push is executed by a build with
\* the flag and by no build without it.
C20_PushOnlyInPushMode ==
    /\ buildStatus \in {"building", "built"} => buildOpts.Push = flags.push
    /\ \A c \in PushCommands(recipe) :
           /\ WasExecuted(c) => flags.push
           /\ (buildStatus = "built" /\ flags.push) => WasExecuted(c)

\* C20 witness: the CI run, earthly --ci --push on test-local, has been
\* built and the --push command has been executed.
C20_Witness ==
    /\ buildStatus = "built"
    /\ flags.ci /\ flags.push
    /\ args = <<"./examples/tests/local+test-local">>
    /\ WasExecuted("RUN touch /tmp/earthly-test-local")

\* C22: --ci implies --use-inline-cache, --save-inline-cache and
\* --no-output: once actionBuild has processed the flags of a --ci command
\* line, with any combination of --push and --remote-cache, the three are
\* set, unless the image or the artifact mode is active.
C22_CiImpliesCacheAndNoOutput ==
    (buildStatus # "start" /\ flags.ci /\ ~flags.imageMode /\ ~flags.artifactMode) =>
        /\ app.useInlineCache
        /\ app.saveInlineCache
        /\ app.noOutput

\* C24: while the token queue holds a token, NextToken returns the head of
\* the queue and takes no token from the generated lexer: the input stays
\* where it is and the queue gets shorter by one, so that it is empty again
\* once the synthetic token and the token that brought it are returned.
C24_QueueFlushedBeforeInput ==
    [][(lexStatus = "run" /\ Len(l.tokenQueue) > 0) =>
           /\ produced' = produced
           /\ l'.index = l.index
           /\ tokens' = Append(tokens, Head(l.tokenQueue))
           /\ l'.tokenQueue = Tail(l.tokenQueue)]_vars

\* The tokens of the generated lexer among a sequence of tokens, as their
\* types and start positions.
IsSynthetic(tk) == tk.type \in {"INDENT", "DEDENT"}
RECURSIVE Places(_)
Places(tks) ==
    IF tks = <<>> THEN <<>>
    ELSE <<[type |-> Head(tks).type, start |-> Head(tks).start]>> \o Places(Tail(tks))

NotSynthetic(tk) == ~IsSynthetic(tk)

\* C25: the tokens of the generated lexer are returned once each and in the
\* order in which it produced them, INDENT and DEDENT only being inserted
\* between them, also for a here-document atom that comes after an INDENT or
\* a DEDENT: the tokens returned, the synthetic ones left out, are the first
\* of the tokens produced.
C25_OrderPreserved ==
    IsPrefixOf(Places(SelectSeq(tokens, NotSynthetic)), Places(produced))

\* A recipe that is a sequence of targets: its content-bearing lines are
\* headers, which start in the first column and end with a colon, each
\* followed by the lines of its body, which blanks lead.
IsHeaderLine(line) ==
    HasContent(line) /\ ~IsBlank(Char(line, 1)) /\ Char(line, Len(line)) = ":"

IsBodyLine(line) == HasContent(line) /\ IsBlank(Char(line, 1))

IsTargets(s) ==
    LET content == SelectSeq(SplitLines(s), HasContent)
    IN  /\ NoHereDoc(s)
        /\ StringsIndex(s, "\\") = 0
        /\ content # <<>>
        /\ IsHeaderLine(content[1])
        /\ IsBodyLine(content[Len(content)])
        /\ \A i \in 1..Len(content) :
               \/ IsBodyLine(content[i])
               \/ IsHeaderLine(content[i]) /\ i < Len(content) /\ IsBodyLine(content[i + 1])

\* C26: the pushes and the pops of the lexer's modes are balanced: over a
\* sequence of targets the mode stack is never popped below its base, and
\* when the recipe is lexed the lexer is back in the mode of the headers with
\* nothing left on the stack, the mode of each body having been popped by the
\* DEDENT that ends it.
C26_ModesBalanced ==
    IsTargets(input) =>
        /\ lexStatus # "panic"
        /\ lexStatus = "done" => (l.mode = "DEFAULT" /\ l.modeStack = <<>>)

\* The blanks that lead a line, and a line led by tabs and spaces together.
LeadingBlanks(line) ==
    IF line # "" /\ IsBlank(Char(line, 1)) THEN Head(Runs(line)) ELSE ""

HasMixedIndent(s) ==
    \E k \in 2..Len(SplitLines(s)) :
        LET lead == LeadingBlanks(SplitLines(s)[k])
        IN  /\ HasContent(SplitLines(s)[k])
            /\ StringsIndex(lead, " ") > 0
            /\ StringsIndex(lead, "\t") > 0

\* The line of the next token of a recipe without here-documents and line
\* continuations, and the last content-bearing line before the k-th (0 when
\* there is none).
LineOfNext == Len(SelectSeq(produced, LAMBDA tk : tk.type = "NL")) + 1

RECURSIVE ContentLineBefore(_, _)
ContentLineBefore(lines, k) ==
    IF k <= 1 THEN 0
    ELSE IF HasContent(lines[k - 1]) THEN k - 1
    ELSE ContentLineBefore(lines, k - 1)

Sign(n) == IF n > 0 THEN 1 ELSE IF n < 0 THEN -1 ELSE 0

\* C29: the indent level of a line is measured in visible columns, a tab
\* going to the next multiple of 8: when NextToken meets the first content
\* token of a line, the level it records for the line compares with the level
\* of the content-bearing line before as the visible columns of the two lines
\* do (equal columns, equal levels); and a recipe with a line indented with
\* tabs and spaces together is not lexed to its end.
C29_LevelInColumns ==
    [][(lexStatus = "run" /\ NoHereDoc(input) /\ StringsIndex(input, "\\") = 0) =>
           /\ HasMixedIndent(input) => lexStatus' # "done"
           /\ LET lines == SplitLines(input)
                  k == LineOfNext
                  j == ContentLineBefore(lines, k)
              IN  ( /\ l.afterNewLine
                    /\ IsContentToken(EarthLexerNextToken(input, l).tok)
                    /\ j > 0 /\ ~HasMixedIndent(input) ) =>
                      Sign(l'.indentLevel - l.prevIndentLevel)
                          = Sign(ColumnOf(lines, k) - ColumnOf(lines, j))]_vars

\* The text a pattern matches at the very start of path ("" when it does not
\* match there), and the first matcher, in the order of declaration, that
\* matches at the start (0 when none does).
MatchAtStart(m, path) ==
    LET e == MatchHere(matchers[m].pattern, 1, path, 1)
    IN  IF e = 0 THEN "" ELSE SubSeq(path, 1, e - 1)

FirstAtStart(path) ==
    IF \E m \in 1..Len(matchers) : MatchAtStart(m, path) # ""
    THEN CHOOSE m \in 1..Len(matchers) :
             /\ MatchAtStart(m, path) # ""
             /\ \A n \in 1..(m - 1) : MatchAtStart(n, path) = ""
    ELSE 0

WithoutLeadingSlash(p) == IF HasPrefix(p, "/") THEN From(p, 2) ELSE p

\* C27: the git-origin lookup matches the patterns at the start of the
\* prefix, in the order of their declaration, and the first match wins: the
\* git_url of a parsed remote reference is the leading part that this pattern
\* matches and its git_sub_path the rest of the path without the leading
\* slash; when no pattern matches at the start, also when one occurs further
\* in the prefix, no git_url is found.
C27_LookupAnchoredFirstMatch ==
    ( /\ pc = "parsed"
      /\ ~parsed.err
      /\ HasPlus(fullTargetName)
      /\ PrefixOf(fullTargetName) # ""
      /\ ~LooksLocal(PrefixOf(fullTargetName)) ) =>
        LET path == PathOf(PrefixOf(fullTargetName))
            m == FirstAtStart(path)
        IN  IF m = 0 THEN parsed.target.GitURL = ""
            ELSE /\ parsed.target.GitURL = MatchAtStart(m, path)
                 /\ parsed.target.GitPath =
                        WithoutLeadingSlash(From(path, Len(MatchAtStart(m, path)) + 1))

\* C23: org invite <path> <email> [<email> ...] invites every e-mail
\* address of the command line: a command that ends without error has
\* called Invite once for each of its addresses, in their order, with the
\* path and the --write flag; org revoke likewise calls RevokePermission
\* once for each.
C23_OneCallPerEmail ==
    orgStatus = "ok" =>
        /\ Len(secretsCalls) = Len(orgArgs) - 1
        /\ \A i \in 1..Len(secretsCalls) :
               /\ secretsCalls[i].op =
                      (IF orgCommand = "invite" THEN "Invite" ELSE "RevokePermission")
               /\ secretsCalls[i].path = orgArgs[1]
               /\ secretsCalls[i].email = orgArgs[i + 1]
               /\ orgCommand = "invite" => secretsCalls[i].write = writePermission

\* An ssh agent with at least one key can be reached.
AgentWithKey ==
    sshAuthSock # "" /\ sshAgent.dial /\ sshAgent.list /\ sshAgent.keys >= 1

\* The matchers that updateGitLookupConfig has registered: those of the
\* entries of the configuration.
RegisteredFor(v) ==
    {i \in 1..Len(gitLookup.matchers) : gitLookup.matchers[i].name = v.name}

\* C28: without an ssh agent that holds at least one key, every git matcher
\* that updateGitLookupConfig registers is registered with the auth https,
\* whatever auth (ssh, https, auto) its entry of the configuration asks for;
\* with such an agent an entry with auto is registered with ssh.
C28_HttpsWithoutSshKeys ==
    gitStatus \in {"done", "error"} =>
        \A v \in cfgGit \ gitTodo : \A i \in RegisteredFor(v) :
            /\ ~AgentWithKey => gitLookup.matchers[i].auth = "https"
            /\ (AgentWithKey /\ v.auth = "auto") => gitLookup.matchers[i].auth = "ssh"

\* C30: the first SIGINT or SIGTERM that the signal goroutine receives
\* cancels the root context and does not exit the process; a second one
\* exits it at once with the code 9; and once the first is received the
\* process always exits in the end, with the exit code of run or with 9
\* when the timer of 30 seconds ends, under any interleaving of the
\* goroutines and the signals.
C30_SignalsCancelThenExit ==
    /\ [][Len(sigChan') < Len(sigChan) =>
              IF receivedSignal
              THEN exitCode' = 9
              ELSE ctxCancelled' /\ receivedSignal' /\ exitCode' = -1]_vars
    /\ [](receivedSignal /\ exitCode # -1 => exitCode \in {9, runExit})
    /\ receivedSignal ~> exitCode # -1

\* The process is forced to exit by the timer while app.run has not returned.
C30_Witness ==
    /\ receivedSignal
    /\ mainPc = "run"
    /\ timerElapsed = 30
    /\ exitCode = 9

\* The targets that t reaches by one or more references, in a graph that
\* gives every target of its domain the set of the targets it refers to.
RECURSIVE ReachedFrom(_, _, _)
ReachedFrom(graph, found, n) ==
    IF n = 0 THEN found
    ELSE ReachedFrom(graph,
                     found \cup UNION {graph[u] : u \in found \cap DOMAIN graph},
                     n - 1)

Reaches(graph, t) == ReachedFrom(graph, graph[t], Cardinality(DOMAIN graph))

HasCycle(graph, from) ==
    \E t \in ({from} \cup Reaches(graph, from)) \cap DOMAIN graph : t \in Reaches(graph, t)

\* The references of the recipes as a graph.
RecipeGraph ==
    [t \in Targets |-> {recipeDeps[t][i] : i \in 1..Len(recipeDeps[t])}]

\* C21: the graph that lowering emits never has a cycle: it holds the target
\* asked for and all the targets it reaches, and none of them reaches itself;
\* when the targets asked for refer to each other in a cycle, lowering ends
\* with a CycleError whose path is the cycle in order, each target referring
\* to the next and the last being the first again (a, b, a for a: BUILD +b
\* and b: BUILD +a), and emits no graph.
C21_NoCycleInEmittedGraph ==
    /\ lowerStatus = "done" =>
           /\ lowRoot \in DOMAIN nodes
           /\ \A t \in DOMAIN nodes : nodes[t] = RecipeGraph[t] /\ nodes[t] \subseteq DOMAIN nodes
           /\ \A t \in DOMAIN nodes : t \notin Reaches(nodes, t)
    /\ HasCycle(RecipeGraph, lowRoot) => lowerStatus # "done"
    /\ lowerStatus = "CycleError" =>
           /\ nodes = <<>>
           /\ Len(cyclePath) >= 2
           /\ cyclePath[1] = cyclePath[Len(cyclePath)]
           /\ \A i \in 1..(Len(cyclePath) - 1) : cyclePath[i + 1] \in RecipeGraph[cyclePath[i]]
           /\ \A i, j \in 1..(Len(cyclePath) - 1) : cyclePath[i] = cyclePath[j] => i = j
    /\ ( /\ lowerStatus \in {"done", "CycleError"}
         /\ lowRoot = "a"
         /\ recipeDeps["a"] = <<"b">>
         /\ recipeDeps["b"] = <<"a">> ) =>
           lowerStatus = "CycleError" /\ cyclePath = <<"a", "b", "a">>

\* The cycle of a: BUILD +b and b: BUILD +a is reported.
C21_Witness ==
    /\ lowerStatus = "CycleError"
    /\ recipeDeps["a"] = <<"b">>
    /\ recipeDeps["b"] = <<"a">>
    /\ cyclePath = <<"a", "b", "a">>

====
